---- MODULE Spec2Model ----
(***************************************************************************)
(* Model of the estimate-OCR backend (backend/app): text normalisation,   *)
(* token extraction, the reference-table index and matcher (match.py),     *)
(* the text-source resolver (extract.py), the OCR backend orchestrator     *)
(* (ocr_backend.py), the ordered thread-pool map (utils.py) and the        *)
(* background task worker (main.py).                                       *)
(*                                                                         *)
(* Strings are sequences of characters; a character is written as a       *)
(* one-character string, or as its code point ("U+3000") when it is not    *)
(* ASCII.                                                                  *)
(***************************************************************************)
EXTENDS Integers, Sequences, FiniteSets, TLC

VARIABLES
  \* ---- background task (main.py) ----
  pc,             \* position of the worker thread of the task
  req,            \* arguments handed to _process_task by upload
  TASKS,          \* task id -> TaskState
  index,          \* DatabaseIndex built by the worker
  DB_PATHS,       \* task id -> stored reference table
  pdf_texts,      \* (name, page texts) per extracted document
  results,        \* the worker's local results list
  failures,       \* the worker's local failures list
  processed_pages, \* pages done by the matching loop
  RESULT_CACHE,   \* task id -> served results rows
  FAILURE_CACHE,  \* task id -> served failures rows
  disk,           \* files of the task directory
  last,           \* the most recent extract_pdf_text call: arguments, environment, outcome
  \* ---- match_token exercised alone ----
  m_pc, m_df, m_token, m_out,
  \* ---- execute_concurrently ----
  e_pc, e_items, e_max_workers, e_fut, e_results, e_ret, e_order,
  \* ---- normalize and extract_tokens exercised alone ----
  t_pc, t_text, t_first, t_out,
  \* ---- HTTP endpoints (main.py) ----
  resp,           \* the answer to the most recent request
  \* ---- one page call of the primary engine, retry_with_backoff (utils.py) ----
  r_pc, r_mode, r_attempts, r_multiplier, r_delay, r_hist, r_sleeps, r_exc,
  \* ---- the token loop of one page (main.py) ----
  cur_tokens,     \* the tokens of the page being matched
  cur_k           \* how many of them have been matched

taskVars == <<pc, req, TASKS, index, DB_PATHS, pdf_texts, results, failures,
              processed_pages, RESULT_CACHE, FAILURE_CACHE, disk, last>>
matchVars == <<m_pc, m_df, m_token, m_out>>
execVars == <<e_pc, e_items, e_max_workers, e_fut, e_results, e_ret, e_order>>
textVars == <<t_pc, t_text, t_first, t_out>>
apiVars == <<resp>>
retryVars == <<r_pc, r_mode, r_attempts, r_multiplier, r_delay, r_hist, r_sleeps, r_exc>>
tokenVars == <<cur_tokens, cur_k>>
vars == <<taskVars, matchVars, execVars, textVars, apiVars, retryVars, tokenVars>>

----------------------------------------------------------------------------
(* Characters and strings *)

LOWER == <<"a","b","c","d","e","f","g","h","i","j","k","l","m",
           "n","o","p","q","r","s","t","u","v","w","x","y","z">>
UPPER == <<"A","B","C","D","E","F","G","H","I","J","K","L","M",
           "N","O","P","Q","R","S","T","U","V","W","X","Y","Z">>
DIGITS == <<"0","1","2","3","4","5","6","7","8","9">>

Range(s) == {s[i] : i \in DOMAIN s}

\* Concatenation of a sequence of strings.
RECURSIVE Flatten(_)
Flatten(ss) == IF ss = <<>> THEN <<>> ELSE Head(ss) \o Flatten(Tail(ss))

\* unicodedata.normalize("NFKC", .) on one character: the full-width forms
\* fold to ASCII, the ideographic space to a space; the en dash, the em dash
\* and the minus sign have no compatibility decomposition.
NfkcChar(c) ==
  CASE c = "U+FF41" -> "a"
    [] c = "U+FF42" -> "b"
    [] c = "U+FF43" -> "c"
    [] c = "U+FF11" -> "1"
    [] c = "U+FF12" -> "2"
    [] c = "U+FF13" -> "3"
    [] c = "U+FF0D" -> "-"
    [] c = "U+3000" -> " "
    [] OTHER -> c

\* Canonical composition, the last step of NFKC: a capital iota followed by
\* a combining diaeresis composes to U+03AA; a small iota with dialytika and
\* tonos (U+0390) is already composed.
RECURSIVE Compose(_)
Compose(s) ==
  IF s = <<>> THEN <<>>
  ELSE IF Len(s) > 1 /\ s[1] = "U+0399" /\ s[2] = "U+0308"
       THEN <<"U+03AA">> \o Compose(SubSeq(s, 3, Len(s)))
       ELSE <<Head(s)>> \o Compose(Tail(s))

\* unicodedata.normalize("NFKC", text)
Nfkc(text) == Compose([i \in DOMAIN text |-> NfkcChar(text[i])])

\* str.upper() on one character.
UpperChar(c) ==
  IF \E i \in DOMAIN LOWER : LOWER[i] = c
  THEN UPPER[CHOOSE i \in DOMAIN LOWER : LOWER[i] = c]
  ELSE c

\* str.upper() of a string: U+0390 has no capital of its own and becomes the
\* three characters U+0399 U+0308 U+0301.
Upper(text) ==
  Flatten([i \in DOMAIN text |->
             IF text[i] = "U+0390" THEN <<"U+0399", "U+0308", "U+0301">>
             ELSE <<UpperChar(text[i])>>])

\* Only the first .replace is made: the en dash.
DashCharEnOnly(c) == IF c = "U+2013" THEN "-" ELSE c

\* .replace of the en dash, the em dash and the minus sign by "-".
DashChar(c) == IF c \in {"U+2013", "U+2014", "U+2212"} THEN "-" ELSE c

\* The class [\s　] of the whitespace pattern.
IsSpace(c) == c \in {" ", "\t", "\n", "\r", "U+3000"}

\* re.sub(r"[\s　]+", " ", text): every run of whitespace becomes one space.
RECURSIVE CollapseSpaces(_)
CollapseSpaces(s) ==
  IF s = <<>> THEN <<>>
  ELSE IF IsSpace(Head(s))
       THEN IF Len(s) > 1 /\ IsSpace(s[2])
            THEN CollapseSpaces(Tail(s))
            ELSE <<" ">> \o CollapseSpaces(Tail(s))
       ELSE <<Head(s)>> \o CollapseSpaces(Tail(s))

\* str.strip(): leading and trailing whitespace removed.
RECURSIVE LStrip(_)
LStrip(s) == IF s # <<>> /\ IsSpace(Head(s)) THEN LStrip(Tail(s)) ELSE s

RECURSIVE RStrip(_)
RStrip(s) ==
  IF s # <<>> /\ IsSpace(s[Len(s)]) THEN RStrip(SubSeq(s, 1, Len(s) - 1)) ELSE s

Strip(s) == RStrip(LStrip(s))

\* A missing cell of the reference table (NaN), and Python's None.
NaN == <<"NaN">>
None == <<"None">>

\* str(value): a string is itself, the float NaN prints as "nan".
Str(value) == IF value = NaN THEN <<"n", "a", "n">> ELSE value

\* match.normalize
normalize(value) ==
  IF value = None THEN <<>>
  ELSE LET text == Str(value)
           nfkc == Nfkc(text)
           up   == Upper(nfkc)
           dash == [i \in DOMAIN up |-> DashChar(up[i])]
       IN Strip(CollapseSpaces(dash))

----------------------------------------------------------------------------
(* Token extraction (match.py) *)

\* TOKEN_PATTERN = [A-Z0-9][A-Z0-9\-_\/]{3,}
TokenStart == Range(UPPER) \cup Range(DIGITS)
TokenBody == TokenStart \cup {"-", "_", "/"}
TOKEN_MIN_TAIL == 3

BLACKLIST ==
  { <<"S","C","A","L","E">>, <<"D","A","T","E">>, <<"P","A","G","E">>,
    <<"S","I","Z","E">>, <<"I","S","O">>, <<"D","I","N">>, <<"M","M">>,
    <<"K","G">>, <<"L","O","T">>, <<"M","O","D","E","L">>,
    <<"C","O","D","E">>, <<"F","A","X">>, <<"T","E","L">> }

\* Length of the longest run of TokenBody characters of s from position i.
RECURSIVE BodyRun(_, _)
BodyRun(s, i) ==
  IF i <= Len(s) /\ s[i] \in TokenBody THEN 1 + BodyRun(s, i + 1) ELSE 0

\* TOKEN_PATTERN.findall(s) from position i: leftmost, greedy, non-overlapping.
RECURSIVE FindAll(_, _)
FindAll(s, i) ==
  IF i > Len(s) THEN <<>>
  ELSE IF s[i] \in TokenStart /\ BodyRun(s, i + 1) >= TOKEN_MIN_TAIL
       THEN LET n == 1 + BodyRun(s, i + 1)
            IN <<SubSeq(s, i, i + n - 1)>> \o FindAll(s, i + n)
       ELSE FindAll(s, i + 1)

HasDigit(s) == \E i \in DOMAIN s : s[i] \in Range(DIGITS)

\* Code-point order of the characters a token can hold.
CodeOrder == <<"-", "/">> \o DIGITS \o UPPER \o <<"_">>
Ord(c) == CHOOSE i \in DOMAIN CodeOrder : CodeOrder[i] = c

\* Python's string order: s < t.
RECURSIVE StrLess(_, _)
StrLess(s, t) ==
  IF t = <<>> THEN FALSE
  ELSE IF s = <<>> THEN TRUE
  ELSE IF Head(s) = Head(t) THEN StrLess(Tail(s), Tail(t))
  ELSE Ord(Head(s)) < Ord(Head(t))

\* sorted(., reverse=True): the largest string first.
RECURSIVE SortedSeqDescending(_)
SortedSeqDescending(S) ==
  IF S = {} THEN <<>>
  ELSE LET m == CHOOSE x \in S : \A y \in S \ {x} : StrLess(y, x)
       IN <<m>> \o SortedSeqDescending(S \ {m})

\* sorted(.) of a set of strings.
RECURSIVE SortedSeq(_)
SortedSeq(S) ==
  IF S = {} THEN <<>>
  ELSE LET m == CHOOSE x \in S : \A y \in S \ {x} : StrLess(x, y)
       IN <<m>> \o SortedSeq(S \ {m})

\* extract_tokens without its digit test: only the blacklist filters.
extract_tokens_any(text) ==
  IF text = <<>> THEN <<>>
  ELSE LET found == FindAll(normalize(text), 1)
       IN SortedSeq({found[i] : i \in {j \in DOMAIN found : found[j] \notin BLACKLIST}})

\* match.extract_tokens
extract_tokens(text) ==
  IF text = <<>> THEN <<>>
  ELSE LET cleaned == normalize(text)
           found == FindAll(cleaned, 1)
           candidates == {found[i] : i \in {j \in DOMAIN found :
                             HasDigit(found[j]) /\ found[j] \notin BLACKLIST}}
       IN SortedSeq(candidates)

----------------------------------------------------------------------------
(* Reference table, DatabaseIndex and match_token (match.py) *)

\* A DataFrame: its column names and its rows in position order; a row maps
\* each column to a cell, a string or NaN.
Frame(columns, rows) == [columns |-> columns, rows |-> rows]

\* Series.fillna("")
fillna(cell) == IF cell = NaN THEN <<>> ELSE cell

\* A hinban_map built without the "if not value: continue" test: the rows
\* with an empty key get a bucket of their own.
HinbanMapKeepsEmpty(hinban_n) ==
  LET keys == {hinban_n[i] : i \in DOMAIN hinban_n}
  IN [k \in keys |->
        SelectSeq([i \in DOMAIN hinban_n |-> i], LAMBDA i : hinban_n[i] = k)]

\* A hinban_map whose buckets are overwritten, not appended to:
\* hinban_map[value] = [idx] keeps the last row of a key only.
HinbanMapLastRow(hinban_n) ==
  LET keys == {hinban_n[i] : i \in DOMAIN hinban_n} \ {<<>>}
  IN [k \in keys |->
        <<CHOOSE i \in DOMAIN hinban_n :
            hinban_n[i] = k /\ \A j \in DOMAIN hinban_n : hinban_n[j] = k => j <= i>>]

\* The dict hinban_map after the loop over frame["HINBAN_N"].items(): a row
\* with an empty key is skipped, setdefault(value, []).append(idx) keeps the
\* positions of a key in row order.
HinbanMapOf(hinban_n) ==
  LET keys == {hinban_n[i] : i \in DOMAIN hinban_n} \ {<<>>}
      RECURSIVE Bucket(_, _)
      Bucket(k, i) ==
        IF i > Len(hinban_n) THEN <<>>
        ELSE (IF hinban_n[i] = k THEN <<i>> ELSE <<>>) \o Bucket(k, i + 1)
  IN [k \in keys |-> Bucket(k, 1)]

\* An index built without the column test: a missing column reads as a
\* column of missing cells.
build_database_index_lenient(df) ==
  LET cell(i, c) == IF c \in df.columns THEN df.rows[i][c] ELSE NaN
      hn == [i \in DOMAIN df.rows |-> normalize(fillna(cell(i, "hinban")))]
      sn == [i \in DOMAIN df.rows |-> normalize(fillna(cell(i, "spec")))]
  IN [ok |-> TRUE, frame |-> df, HINBAN_N |-> hn, SPEC_N |-> sn,
      hinban_map |-> HinbanMapOf(hn)]

\* match.build_database_index: ok = FALSE stands for the ValueError raised
\* when the hinban or the spec column is missing.
build_database_index(df) ==
  IF "hinban" \notin df.columns \/ "spec" \notin df.columns
  THEN [ok |-> FALSE, frame |-> df, HINBAN_N |-> <<>>, SPEC_N |-> <<>>,
        hinban_map |-> <<>>]
  ELSE LET hn == [i \in DOMAIN df.rows |-> normalize(fillna(df.rows[i]["hinban"]))]
           sn == [i \in DOMAIN df.rows |-> normalize(fillna(df.rows[i]["spec"]))]
       IN [ok |-> TRUE, frame |-> df, HINBAN_N |-> hn, SPEC_N |-> sn,
           hinban_map |-> HinbanMapOf(hn)]

\* Series.str.contains(pat, na=False) with its default regex=True: pat is a
\* regular expression searched in s.  Of the characters of the model only
\* "." is special to the regular-expression engine: it matches any character.
RegexMatchAt(s, pat, i) ==
  \A j \in DOMAIN pat :
    /\ i + j - 1 <= Len(s)
    /\ (pat[j] = "." \/ pat[j] = s[i + j - 1])

StrContains(s, pat) == \E i \in 1..(Len(s) + 1) : RegexMatchAt(s, pat, i)

\* The dict built for one row by match_token.
MatchDict(type, frame, row_idx) ==
  LET row == frame.rows[row_idx]
  IN IF "zaiko" \in frame.columns
     THEN [matched_type |-> type, matched_hinban |-> row["hinban"],
           zaiko |-> row["zaiko"]]
     ELSE [matched_type |-> type, matched_hinban |-> row["hinban"]]

\* The spec branch of match_token: the rows of frame[SPEC_N.str.contains(..)]
\* in row order.
SpecMatches(normalized_token, idx) ==
  LET RECURSIVE Scan(_)
      Scan(i) ==
        IF i > Len(idx.SPEC_N) THEN <<>>
        ELSE (IF StrContains(idx.SPEC_N[i], normalized_token)
              THEN <<MatchDict("spec", idx.frame, i)>> ELSE <<>>) \o Scan(i + 1)
  IN Scan(1)

\* The hinban branch of match_token: one dict per row of the bucket.
HinbanMatches(normalized_token, idx) ==
  LET bucket == idx.hinban_map[normalized_token]
  IN [k \in DOMAIN bucket |-> MatchDict("hinban", idx.frame, bucket[k])]

\* match_token without the return that ends the hinban branch: the spec
\* search follows and its rows are added.
MatchTokenRunNoReturn(token, idx) ==
  LET normalized_token == normalize(token)
  IN IF normalized_token \in DOMAIN idx.hinban_map
     THEN [results |-> HinbanMatches(normalized_token, idx)
                         \o SpecMatches(normalized_token, idx),
           spec_scan |-> TRUE]
     ELSE [results |-> SpecMatches(normalized_token, idx), spec_scan |-> TRUE]

\* match.match_token, with a note of whether the spec column was searched.
MatchTokenRun(token, idx) ==
  LET normalized_token == normalize(token)
  IN IF normalized_token \in DOMAIN idx.hinban_map
     THEN [results |-> HinbanMatches(normalized_token, idx), spec_scan |-> FALSE]
     ELSE [results |-> SpecMatches(normalized_token, idx), spec_scan |-> TRUE]

match_token(token, idx) == MatchTokenRun(token, idx).results

----------------------------------------------------------------------------
(* match_token exercised alone: on page tokens and through POST /retry *)

MaxRows == 2
MaxTokLen == 2

RECURSIVE StringsUpTo(_, _)
StringsUpTo(S, n) ==
  IF n = 0 THEN {<<>>}
  ELSE LET shorter == StringsUpTo(S, n - 1)
       IN shorter \cup {<<c>> \o t : c \in S, t \in {u \in shorter : Len(u) = n - 1}}

RECURSIVE SeqsUpTo(_, _)
SeqsUpTo(S, n) ==
  IF n = 0 THEN {<<>>}
  ELSE LET shorter == SeqsUpTo(S, n - 1)
       IN shorter \cup {<<x>> \o t : x \in S, t \in {u \in shorter : Len(u) = n - 1}}

Row(h, sp, z) == [hinban |-> h, spec |-> sp, zaiko |-> z]

\* Rows of the reference tables: identifiers that differ from their normal
\* form (case, full width), two rows of one identifier, an identifier that
\* occurs in another row's specification, missing and blank cells.
RowPool ==
  { Row(<<"a","b","-","1">>, <<"B","1"," ","A","B","-","1","-","X">>, <<"1","0">>),
    Row(<<"U+FF41","U+FF42","U+FF0D","U+FF11">>, <<"a",".","1">>, <<"5">>),
    Row(<<"B","1">>, <<"a","b","1">>, NaN),
    Row(NaN, <<"A","B","-","1">>, <<>>),
    Row(<<" ">>, NaN, <<"7">>) }

\* A table with its zaiko column, or with that column dropped.
TableOf(rows, with_zaiko) ==
  IF with_zaiko THEN Frame({"hinban", "spec", "zaiko"}, rows)
  ELSE Frame({"hinban", "spec"},
             [i \in DOMAIN rows |-> [c \in {"hinban", "spec"} |-> rows[i][c]]])

MatchTables == {TableOf(rows, z) : rows \in SeqsUpTo(RowPool, MaxRows), z \in BOOLEAN}

\* Page texts whose tokens are matched.
MatchPageTexts ==
  { <<"a","b","-","1"," ","X","Y","-","9"," ","a","b","-","1">>,
    <<"A","B","-","1","-","X","\n","B","1">>,
    <<"U+FF41","U+FF42","U+2013","U+FF11">> }

\* Tokens a client may post to /retry: any short string, and some long ones.
RetryTokens ==
  StringsUpTo({"a", "B", "1", ".", "-", " "}, MaxTokLen)
    \cup { <<"a","b","-","1">>, <<"a","b",".","1">>, <<" ","A","B","U+2212","1">> }

NoMatchRun == [results |-> <<>>, spec_scan |-> FALSE]

MatchParked ==
  /\ m_pc = "off"
  /\ m_df = Frame({}, <<>>)
  /\ m_token = <<>>
  /\ m_out = NoMatchRun

\* _process_task, lines 110-113: a token of a page is matched.
MatchExtracted ==
  /\ m_pc = "idle"
  /\ \E text \in MatchPageTexts :
       \E k \in DOMAIN extract_tokens(text) :
         LET token == extract_tokens(text)[k]
         IN /\ m_token' = token
            /\ m_out' = MatchTokenRun(token, build_database_index(m_df))
  /\ m_pc' = "page"
  /\ UNCHANGED <<m_df, taskVars, execVars, textVars, apiVars, retryVars, tokenVars>>

\* main.retry, lines 239-241: the posted token is matched against the stored table.
Retry ==
  /\ m_pc = "idle"
  /\ \E token \in RetryTokens :
       /\ m_token' = token
       /\ m_out' = MatchTokenRun(token, build_database_index(m_df))
  /\ m_pc' = "retry"
  /\ UNCHANGED <<m_df, taskVars, execVars, textVars, apiVars, retryVars, tokenVars>>

----------------------------------------------------------------------------
(* utils.execute_concurrently: a thread pool maps func over items *)

MaxItems == 3
MaxWorkers == 2

Images == {"imgA", "imgB"}

\* list(enumerate(images)): the items handed over by the yomitoku runners.
Enumerate(images) == [i \in DOMAIN images |-> <<i - 1, images[i]>>]

\* What func returns for an item when it does not raise.
WorkerResult(item) == <<"text", item[1], item[2]>>

Max(a, b) == IF a >= b THEN a ELSE b
Min(a, b) == IF a <= b THEN a ELSE b

\* worker_count = max(1, min(max_workers, len(items)))
WorkerCount(max_workers, n) == Max(1, Min(max_workers, n))

\* [None] * len(items)
NoneList(n) == [i \in 1..n |-> None]

\* results filled in the order of completion: the first free slot is taken.
StoreResultNextFree(res, idx, value) ==
  LET free == CHOOSE i \in DOMAIN res : res[i] = None /\ \A j \in 1..(i - 1) : res[j] # None
  IN [res EXCEPT ![free] = value]

\* results[idx] = future.result()
StoreResult(res, idx, value) == [res EXCEPT ![idx] = value]

ExecParked ==
  /\ e_pc = "off"
  /\ e_items = <<>>
  /\ e_max_workers = 1
  /\ e_fut = <<>>
  /\ e_results = <<>>
  /\ e_ret = <<>>
  /\ e_order = <<>>

Running == {i \in DOMAIN e_fut : e_fut[i] = "running"}
Pending == {i \in DOMAIN e_fut : e_fut[i] = "pending"}

\* Entry: the empty list returns at once, otherwise every item is submitted.
ExecSubmit ==
  /\ e_pc = "call"
  /\ IF e_items = <<>>
     THEN /\ e_pc' = "returned"
          /\ e_ret' = <<>>
          /\ UNCHANGED <<e_fut, e_results>>
     ELSE /\ e_pc' = "collect"
          /\ e_fut' = [i \in DOMAIN e_items |-> "pending"]
          /\ e_results' = NoneList(Len(e_items))
          /\ UNCHANGED e_ret
  /\ UNCHANGED <<e_items, e_max_workers, e_order, taskVars, matchVars, textVars, apiVars, retryVars, tokenVars>>

\* A free pool thread takes the oldest queued item.
ThreadStart ==
  /\ e_pc \in {"collect", "raising"}
  /\ Pending # {}
  /\ Cardinality(Running) < WorkerCount(e_max_workers, Len(e_items))
  /\ LET i == CHOOSE j \in Pending : \A k \in Pending : j <= k
     IN e_fut' = [e_fut EXCEPT ![i] = "running"]
  /\ UNCHANGED <<e_pc, e_items, e_max_workers, e_results, e_ret, e_order,
                 taskVars, matchVars, textVars, apiVars, retryVars, tokenVars>>

\* func returns on a pool thread: the future holds its result.
ThreadFinish ==
  /\ e_pc \in {"collect", "raising"}
  /\ \E i \in Running :
       /\ e_fut' = [e_fut EXCEPT ![i] = "done"]
       /\ e_order' = Append(e_order, i)
  /\ UNCHANGED <<e_pc, e_items, e_max_workers, e_results, e_ret,
                 taskVars, matchVars, textVars, apiVars, retryVars, tokenVars>>

\* func raises on a pool thread: the future holds the exception.
ThreadRaise ==
  /\ e_pc \in {"collect", "raising"}
  /\ \E i \in Running :
       /\ e_fut' = [e_fut EXCEPT ![i] = "error"]
       /\ e_order' = Append(e_order, i)
  /\ UNCHANGED <<e_pc, e_items, e_max_workers, e_results, e_ret,
                 taskVars, matchVars, textVars, apiVars, retryVars, tokenVars>>

\* One turn of the as_completed loop on a future that returned.
Collect ==
  /\ e_pc = "collect"
  /\ \E i \in DOMAIN e_fut :
       /\ e_fut[i] = "done"
       /\ e_fut' = [e_fut EXCEPT ![i] = "collected"]
       /\ e_results' = StoreResult(e_results, i, WorkerResult(e_items[i]))
  /\ UNCHANGED <<e_pc, e_items, e_max_workers, e_ret, e_order,
                 taskVars, matchVars, textVars, apiVars, retryVars, tokenVars>>

\* One turn of the as_completed loop on a future that raised:
\* future.result() re-raises and the loop is left.
CollectRaise ==
  /\ e_pc = "collect"
  /\ \E i \in DOMAIN e_fut : e_fut[i] = "error"
  /\ e_pc' = "raising"
  /\ UNCHANGED <<e_items, e_max_workers, e_fut, e_results, e_ret, e_order,
                 taskVars, matchVars, textVars, apiVars, retryVars, tokenVars>>

\* Leaving the with block joins the pool (every submitted item has run),
\* then the exception leaves execute_concurrently.
ExecRaise ==
  /\ e_pc = "raising"
  /\ Pending = {} /\ Running = {}
  /\ e_pc' = "raised"
  /\ UNCHANGED <<e_items, e_max_workers, e_fut, e_results, e_ret, e_order,
                 taskVars, matchVars, textVars, apiVars, retryVars, tokenVars>>

\* The loop ended: the results list is returned.
ExecReturn ==
  /\ e_pc = "collect"
  /\ \A i \in DOMAIN e_fut : e_fut[i] = "collected"
  /\ e_pc' = "returned"
  /\ e_ret' = e_results
  /\ UNCHANGED <<e_items, e_max_workers, e_fut, e_results, e_order,
                 taskVars, matchVars, textVars, apiVars, retryVars, tokenVars>>

----------------------------------------------------------------------------
(* OCR backend orchestrator (ocr_backend.py) *)

\* The minimum text length of extract_pdf_text and of ocr_pages.
MIN_TEXT_LENGTH == 20

\* Python None in a field that holds a label, a message or a path.
Unset == "None"

ALLOWED_OCR_BACKENDS == {"yomitoku", "rapidocr", "paddleocr"}

\* The environment of _run_yomitoku: YOMITOKU_MODE with YOMITOKU_BASE_URL
\* or YOMITOKU_CLI_PATH set or missing.
YomitokuConfigs ==
  {"mode_unset", "rest_no_url", "rest", "cli_no_path", "cli", "mode_other"}

\* What the primary engine answers for one page, after its retries in REST
\* mode: a text, YomiTokuError, or an exception of another class (a payload
\* that is not a JSON object makes payload.get raise AttributeError).
PrimaryOutcomes == {"plain", "rich", "YomiTokuError", "OtherError"}

\* What a local engine answers for one page.
LocalOutcomes == {"plain", "empty", "fail"}

wSCALE == <<"S","C","A","L","E">>

\* The text the primary engine returns for a page showing `shown`.
PrimaryText(shown, outcome) ==
  IF outcome = "rich" THEN wSCALE \o <<" ">> \o shown ELSE shown

\* The text a local engine returns: " ".join of the recognised lines.
LocalText(shown, outcome) ==
  IF outcome = "empty" THEN <<>> ELSE Strip(shown)

RECURSIVE SumLen(_)
SumLen(texts) ==
  IF texts = <<>> THEN 0 ELSE Len(Head(texts)) + SumLen(Tail(texts))

\* total_length = sum(len(text.strip()) for text in texts)
TotalLength(texts) == SumLen([i \in DOMAIN texts |-> Strip(texts[i])])

\* _run_batch_ocr with a runner whose exception is swallowed: a failing page
\* yields an empty text and the loop goes on.
RunBatchOcrSkipFailed(shown, loc) ==
  [ok |-> TRUE,
   calls |-> [i \in DOMAIN shown |-> i],
   texts |-> [i \in DOMAIN shown |->
                IF loc[i] = "fail" THEN <<>> ELSE LocalText(shown[i], loc[i])]]

\* _run_batch_ocr(images, runner): the pages in order, one after another; the
\* first page whose runner raises ends the loop with that exception.
RunBatchOcr(shown, loc) ==
  LET failing == {i \in DOMAIN shown : loc[i] = "fail"}
      stop == IF failing = {} THEN Len(shown)
              ELSE CHOOSE i \in failing : \A j \in failing : i <= j
  IN [ok |-> failing = {},
      calls |-> [i \in 1..stop |-> i],
      texts |-> IF failing = {} THEN [i \in DOMAIN shown |-> LocalText(shown[i], loc[i])]
                ELSE <<>>]

\* _run_yomitoku(raw_images): exc is "none" when it returns texts.  Both
\* runners submit every page to execute_concurrently, so the engine is called
\* for every page; the exception that leaves is that of the failed page the
\* as_completed loop meets first (env.first).
RunYomitoku(shown, env) ==
  IF env.cfg \notin {"rest", "cli"}
  THEN [exc |-> "YomiTokuError", pages |-> {}, texts |-> <<>>]
  ELSE LET failing == {i \in DOMAIN shown :
                         env.prim[i] \in {"YomiTokuError", "OtherError"}}
       IN IF failing = {}
          THEN [exc |-> "none", pages |-> DOMAIN shown,
                texts |-> [i \in DOMAIN shown |-> PrimaryText(shown[i], env.prim[i])]]
          ELSE [exc |-> env.prim[env.first], pages |-> DOMAIN shown, texts |-> <<>>]

NoBatch == [ok |-> TRUE, calls |-> <<>>, texts |-> <<>>]
NoPrimary == [exc |-> "none", pages |-> {}, texts |-> <<>>]

\* The outcome of ocr_pages with the engine calls it made.
OcrOutcome(out, texts, used, prim_run, prim, rapid, paddle) ==
  [out |-> out, texts |-> texts, backend_used |-> used, prim_run |-> prim_run,
   prim |-> prim, rapid_calls |-> rapid.calls, paddle_calls |-> paddle.calls]

\* A fallback that runs paddleocr instead of rapidocr.
FallbackToPaddle(shown, env, prim) ==
  LET paddle == RunBatchOcr(shown, env.loc)
  IN OcrOutcome(IF paddle.ok THEN "ret" ELSE "raise", paddle.texts, "paddleocr",
                TRUE, prim, NoBatch, paddle)

\* The fallback of ocr_pages: rapidocr on the preprocessed images.
FallbackToRapid(shown, env, prim) ==
  LET rapid == RunBatchOcr(shown, env.loc)
  IN OcrOutcome(IF rapid.ok THEN "ret" ELSE "raise", rapid.texts, "rapidocr",
                TRUE, prim, rapid, NoBatch)

\* The length test taken on the texts as returned, without text.strip().
PrimaryOutputKeptRaw(texts) == ~(SumLen(texts) < MIN_TEXT_LENGTH)

\* Whether the primary output is kept: total_length < 20 falls back.
PrimaryOutputKept(texts) == ~(TotalLength(texts) < MIN_TEXT_LENGTH)

\* The yomitoku branch of ocr_pages.
OcrYomitoku(shown, env) ==
  LET prim == RunYomitoku(shown, env)
  IN IF prim.exc = "YomiTokuError" THEN FallbackToRapid(shown, env, prim)
     ELSE IF prim.exc # "none"
          THEN OcrOutcome("raise", <<>>, "yomitoku", TRUE, prim, NoBatch, NoBatch)
     ELSE IF PrimaryOutputKept(prim.texts)
          THEN OcrOutcome("ret", prim.texts, "yomitoku", TRUE, prim, NoBatch, NoBatch)
     ELSE FallbackToRapid(shown, env, prim)

\* The rapidocr and paddleocr branches of ocr_pages.
OcrLocal(shown, env, backend) ==
  LET run == RunBatchOcr(shown, env.loc)
  IN OcrOutcome(IF run.ok THEN "ret" ELSE "raise", run.texts, backend, FALSE,
                NoPrimary,
                IF backend = "rapidocr" THEN run ELSE NoBatch,
                IF backend = "paddleocr" THEN run ELSE NoBatch)

\* ocr_backend.ocr_pages: shown is what each page image shows; a failing
\* rasteriser (convert_from_path, _preprocess) raises before any engine runs.
ocr_pages(shown, backend, env) ==
  IF ~env.raster
  THEN OcrOutcome("raise", <<>>, backend, FALSE, NoPrimary, NoBatch, NoBatch)
  ELSE IF backend = "yomitoku" THEN OcrYomitoku(shown, env)
  ELSE IF backend \in {"rapidocr", "paddleocr"} THEN OcrLocal(shown, env, backend)
  ELSE OcrOutcome("raise", <<>>, backend, FALSE, NoPrimary, NoBatch, NoBatch)

NoOcr == OcrOutcome("none", <<>>, Unset, FALSE, NoPrimary, NoBatch, NoBatch)

----------------------------------------------------------------------------
(* Text-source resolver (extract.py) *)

\* The length test taken page by page: sum(len(t.strip()) for t in pdf_texts).
TextLayerAcceptedPerPage(pdf_texts_) == TotalLength(pdf_texts_) >= MIN_TEXT_LENGTH

\* Whether the text layer is accepted: len("".join(pdf_texts).strip()) >= 20
TextLayerAccepted(pdf_texts_) == Len(Strip(Flatten(pdf_texts_))) >= MIN_TEXT_LENGTH

\* extract.extract_pdf_text on a document whose text layer is doc.layer.
\* out is "ret", or the class of the exception that leaves: pdfplumber's own
\* when the text layer cannot be read, RuntimeError when ocr_pages raised.
extract_pdf_text(doc, backend, env) ==
  IF ~env.layer_ok
  THEN [out |-> "Exception", texts |-> <<>>, label |-> Unset,
        ocr_calls |-> 0, ocr_backend |-> Unset, ocr |-> NoOcr]
  ELSE IF TextLayerAccepted(doc.layer)
  THEN [out |-> "ret", texts |-> doc.layer, label |-> "text-layer",
        ocr_calls |-> 0, ocr_backend |-> Unset, ocr |-> NoOcr]
  ELSE LET result == ocr_pages(doc.shown, backend, env)
       IN IF result.out = "ret"
          THEN [out |-> "ret", texts |-> result.texts, label |-> result.backend_used,
                ocr_calls |-> 1, ocr_backend |-> backend, ocr |-> result]
          ELSE [out |-> "RuntimeError", texts |-> <<>>, label |-> Unset,
                ocr_calls |-> 1, ocr_backend |-> backend, ocr |-> result]

----------------------------------------------------------------------------
(* Uploaded inputs of a task *)

MaxDocs == 2

wAB1 == <<"A","B","-","1">>
wXY9 == <<"X","Y","-","9">>
wQ78 == <<"Q","7","/","8">>
w2024 == <<"2","0","2","4">>
SP == <<" ">>
NL == <<"\n">>

\* An uploaded PDF: its file name, the text layer pdfplumber reads per page
\* and what each rasterised page shows.
Doc(name, layer, shown) == [name |-> name, layer |-> layer, shown |-> shown]

DocPool ==
  { \* a digital PDF with a text layer of 25 characters
    Doc("a.pdf", << wAB1 \o SP \o wXY9 \o SP \o wQ78 \o SP \o wSCALE \o SP \o w2024 >>,
                 << wAB1 \o SP \o wXY9 \o SP \o wQ78 \o SP \o wSCALE \o SP \o w2024 >>),
    \* a text layer of 10 + 10 characters with blanks at the page break
    Doc("b.pdf", << wAB1 \o SP \o wXY9 \o SP, SP \o wQ78 \o SP \o w2024 >>,
                 << wAB1 \o SP \o wXY9 \o SP, SP \o wQ78 \o SP \o w2024 >>),
    \* a text layer of 21 characters, 19 without the blanks at its ends
    Doc("a.pdf", << SP \o wAB1 \o SP \o wXY9 \o SP \o wQ78 \o SP \o w2024 \o NL >>,
                 << wAB1 \o SP \o wXY9 \o SP \o wQ78 \o SP \o w2024 \o NL >>),
    \* a scan of two pages without a text layer
    Doc("c.pdf", << <<>>, <<>> >>,
                 << wAB1 \o SP \o wXY9 \o SP, wQ78 \o SP \o w2024 \o NL >>),
    \* a PDF without pages
    Doc("d.pdf", <<>>, <<>>) }

\* File names in Python's string order.
NameOrder == <<"a.pdf", "b.pdf", "c.pdf", "d.pdf">>

DbRows ==
  << Row(wAB1, <<"M"," ">> \o wQ78, <<"1","0">>),
     Row(<<"a","b","U+2013","1">>, <<"x">>, <<"5">>),
     Row(<<"C","-","7","7">>, <<"a","b","-","1","-","x"," ">> \o w2024, <<"0">>) >>

\* Reference tables: with the stock column, without it, and without spec.
DbPool ==
  { TableOf(DbRows, TRUE),
    TableOf(SubSeq(DbRows, 1, 2), FALSE),
    Frame({"hinban", "zaiko"},
          [i \in 1..2 |-> [c \in {"hinban", "zaiko"} |-> DbRows[i][c]]]) }

\* What the environment answers to one extract_pdf_text call: whether the
\* text layer can be read and the pages rasterised, the yomitoku
\* configuration, the outcome of the primary engine per page with the failed
\* page met first, and the outcome of the local engine per page.
Env(layer_ok, raster, cfg, prim, first, loc) ==
  [layer_ok |-> layer_ok, raster |-> raster, cfg |-> cfg, prim |-> prim,
   first |-> first, loc |-> loc]

PageOutcomes(n, S) == [1..n -> S]

LocalEnvs(n) ==
  {Env(TRUE, TRUE, "mode_unset", <<>>, 1, loc) : loc \in PageOutcomes(n, LocalOutcomes)}

PrimaryEnvs(n) ==
  LET cfgs == {"rest", "cli"}
      firsts(prim) ==
        LET failing == {i \in 1..n : prim[i] \in {"YomiTokuError", "OtherError"}}
        IN IF failing = {} THEN {1} ELSE failing
  IN UNION { UNION { { Env(TRUE, TRUE, cfg, prim, f, loc) :
                         f \in firsts(prim), cfg \in cfgs }
                     : prim \in PageOutcomes(n, PrimaryOutcomes) }
             : loc \in PageOutcomes(n, LocalOutcomes) }

UnconfiguredEnvs(n) ==
  {Env(TRUE, TRUE, cfg, <<>>, 1, loc) :
     cfg \in YomitokuConfigs \ {"rest", "cli"}, loc \in PageOutcomes(n, LocalOutcomes)}

\* The environments that differ in their effect on one call.
Envs(doc, backend) ==
  LET n == Len(doc.shown)
  IN {Env(FALSE, TRUE, "mode_unset", <<>>, 1, <<>>)}
     \cup IF TextLayerAccepted(doc.layer)
          THEN {Env(TRUE, TRUE, "mode_unset", <<>>, 1, <<>>)}
          ELSE {Env(TRUE, FALSE, "mode_unset", <<>>, 1, <<>>)}
               \cup IF backend = "yomitoku"
                    THEN PrimaryEnvs(n) \cup UnconfiguredEnvs(n)
                    ELSE LocalEnvs(n)

----------------------------------------------------------------------------
(* Background task (main.py, utils.TaskState) *)

TaskId == "t1"

\* utils.TaskState.__init__
NewTaskState ==
  [progress |-> 0, pages |-> 0, current_page |-> 0, status |-> "pending",
   error |-> Unset,
   totals |-> [tokens |-> 0, hit_hinban |-> 0, hit_spec |-> 0, fail |-> 0],
   results_path |-> Unset, failures_path |-> Unset,
   backend_requested |-> Unset, backend_used |-> Unset]

NoRequest == [db |-> Frame({}, <<>>), pdfs |-> <<>>, backend |-> Unset]
NoIndex == build_database_index(Frame({}, <<>>))
NoCall == [out |-> "none", texts |-> <<>>, label |-> Unset,
           ocr_calls |-> 0, ocr_backend |-> Unset, ocr |-> NoOcr]
NoLast == [doc |-> Doc(Unset, <<>>, <<>>), backend |-> Unset,
           env |-> Env(TRUE, TRUE, "mode_unset", <<>>, 1, <<>>), call |-> NoCall]

TaskParked ==
  /\ pc = "none"
  /\ req = NoRequest
  /\ TASKS = <<>>
  /\ index = NoIndex
  /\ DB_PATHS = <<>>
  /\ pdf_texts = <<>>
  /\ results = <<>>
  /\ failures = <<>>
  /\ processed_pages = 0
  /\ RESULT_CACHE = <<>>
  /\ FAILURE_CACHE = <<>>
  /\ disk = <<>>
  /\ last = NoLast

state == TASKS[TaskId]

\* A file of the task directory is written.
WriteFile(files, name, content) ==
  [f \in DOMAIN files \cup {name} |-> IF f = name THEN content ELSE files[f]]

\* state.<field> = value
SetState(changes) ==
  TASKS' = [TASKS EXCEPT ![TaskId] =
              [f \in DOMAIN @ |-> IF f \in DOMAIN changes THEN changes[f] ELSE @[f]]]

\* state.status = "error"; state.error = message
Fail(message) == SetState([status |-> "error", error |-> message])

\* main.upload: the task is registered and its worker thread started.
UploadPdfs(n) ==
  /\ pc = "none"
  /\ \E db \in DbPool, pdfs \in SeqsUpTo(DocPool, n) \ {<<>>},
        backend \in ALLOWED_OCR_BACKENDS :
       req' = [db |-> db, pdfs |-> pdfs, backend |-> backend]
  /\ TASKS' = (TaskId :> NewTaskState)
  /\ pc' = "start"
  /\ UNCHANGED <<index, DB_PATHS, pdf_texts, results, failures, processed_pages,
                 RESULT_CACHE, FAILURE_CACHE, disk, last, matchVars, execVars, textVars, apiVars, retryVars, tokenVars>>

Upload == UploadPdfs(MaxDocs)

\* _process_task, lines 64-71: the requested backend is noted and the task
\* directory made.
Start ==
  /\ pc = "start"
  /\ SetState([backend_requested |-> req.backend])
  /\ pc' = "load"
  /\ UNCHANGED <<req, index, DB_PATHS, pdf_texts, results, failures, processed_pages,
                 RESULT_CACHE, FAILURE_CACHE, disk, last, matchVars, execVars, textVars, apiVars, retryVars, tokenVars>>

\* _process_task, lines 72-82: the reference table is read, indexed and
\* stored; any exception is caught and ends the task in error.
LoadDb ==
  /\ pc = "load"
  /\ \E read_ok \in BOOLEAN, write_ok \in BOOLEAN :
       LET built == build_database_index(req.db)
           message == IF ~read_ok THEN "csv: encoding"
                      ELSE IF ~built.ok THEN "csv: hinban and spec columns required"
                      ELSE "csv: write"
       IN IF read_ok /\ built.ok /\ write_ok
          THEN /\ index' = built
               /\ DB_PATHS' = (TaskId :> "database.csv")
               /\ disk' = WriteFile(disk, "database.csv", <<"bytes">>)
               /\ pc' = "pdf"
               /\ UNCHANGED TASKS
          ELSE /\ Fail(message)
               /\ pc' = "done"
               /\ UNCHANGED <<index, DB_PATHS, disk>>
  /\ UNCHANGED <<req, pdf_texts, results, failures, processed_pages,
                 RESULT_CACHE, FAILURE_CACHE, last, matchVars, execVars, textVars, apiVars, retryVars, tokenVars>>

\* The iteration of the loop over pdf_entries, lines 85-101, for the next
\* document; a failing write of the PDF is not caught and ends the thread.
ExtractPdf ==
  /\ pc = "pdf"
  /\ LET doc == req.pdfs[Len(pdf_texts) + 1]
     IN \/ /\ pc' = "dead"
           /\ UNCHANGED <<TASKS, pdf_texts, last, disk>>
        \/ \E env \in Envs(doc, req.backend) :
             LET call == extract_pdf_text(doc, req.backend, env)
             IN /\ last' = [doc |-> doc, backend |-> req.backend, env |-> env,
                            call |-> call]
                /\ disk' = WriteFile(disk, doc.name, <<"bytes">>)
                /\ IF call.out = "ret"
                   THEN /\ SetState([backend_used |-> call.label,
                                     pages |-> state.pages + Len(call.texts)])
                        /\ pdf_texts' = Append(pdf_texts, <<doc.name, call.texts>>)
                        /\ pc' = IF Len(pdf_texts) + 1 = Len(req.pdfs)
                                 THEN "match" ELSE "pdf"
                   ELSE /\ Fail(IF call.out = "RuntimeError" THEN "ocr" ELSE "pdf")
                        /\ pc' = "done"
                        /\ UNCHANGED pdf_texts
  /\ UNCHANGED <<req, index, DB_PATHS, results, failures, processed_pages,
                 RESULT_CACHE, FAILURE_CACHE, matchVars, execVars, textVars, apiVars, retryVars, tokenVars>>

\* The pages of the extracted documents in the order of the matching loop,
\* each with its document name and its page number counted from 1.
RECURSIVE AllPages(_)
AllPages(texts) ==
  IF texts = <<>> THEN <<>>
  ELSE LET name == Head(texts)[1]
           pages == Head(texts)[2]
       IN [p \in DOMAIN pages |-> [pdf_name |-> name, page |-> p, text |-> pages[p]]]
          \o AllPages(Tail(texts))

\* The record appended to results for one match of a token.
ResultRecord(pdf_name, page_idx, token, match) ==
  LET record == [pdf_name |-> pdf_name, page |-> page_idx, token |-> token,
                 matched_type |-> match.matched_type,
                 matched_hinban |-> match.matched_hinban]
  IN IF "zaiko" \in DOMAIN match
     THEN [f \in DOMAIN record \cup {"zaiko"} |->
             IF f = "zaiko" THEN match.zaiko ELSE record[f]]
     ELSE record

\* A failures record whose page counts from 0: enumerate(pages) without start=1.
FailureRecordFromZero(pdf_name, page_idx, token) ==
  [pdf_name |-> pdf_name, page |-> page_idx - 1, token |-> token]

FailureRecord(pdf_name, page_idx, token) ==
  [pdf_name |-> pdf_name, page |-> page_idx, token |-> token]

\* A token loop without the else: the failures record is appended for a
\* matched token too.
TokenRowsFailureAlways(pdf_name, page_idx, token, idx) ==
  LET matches == match_token(token, idx)
  IN [results |-> [k \in DOMAIN matches |->
                     ResultRecord(pdf_name, page_idx, token, matches[k])],
      failures |-> <<FailureRecord(pdf_name, page_idx, token)>>]

\* What one token adds, lines 113-138: a results record per match, or one
\* failures record when match_token returns nothing.
TokenRows(pdf_name, page_idx, token, idx) ==
  LET matches == match_token(token, idx)
  IN IF matches # <<>>
     THEN [results |-> [k \in DOMAIN matches |->
                          ResultRecord(pdf_name, page_idx, token, matches[k])],
           failures |-> <<>>]
     ELSE [results |-> <<>>,
           failures |-> <<FailureRecord(pdf_name, page_idx, token)>>]

\* The loop over the tokens of one page.
RECURSIVE PageRows(_, _, _, _)
PageRows(pdf_name, page_idx, tokens, idx) ==
  IF tokens = <<>> THEN [results |-> <<>>, failures |-> <<>>]
  ELSE LET first == TokenRows(pdf_name, page_idx, Head(tokens), idx)
           rest == PageRows(pdf_name, page_idx, Tail(tokens), idx)
       IN [results |-> first.results \o rest.results,
           failures |-> first.failures \o rest.failures]

CountType(rows, type) ==
  Cardinality({k \in DOMAIN rows : rows[k].matched_type = type})

\* The share of the pages still to be processed, not of those processed.
ProgressOfRemaining(processed, pages) ==
  (((pages - processed) * 100) \div (IF pages > 1 THEN pages ELSE 1))

\* int(min(100, (processed_pages / max(1, state.pages)) * 100)); for fewer
\* than 50 pages the float product truncates to the integer quotient.
ProgressOf(processed, pages) == Min(100, (processed * 100) \div Max(1, pages))

\* Lines 103-106: the matching phase begins.
BeginMatch ==
  /\ pc = "match"
  /\ results' = <<>>
  /\ failures' = <<>>
  /\ SetState([status |-> "processing"])
  /\ processed_pages' = 0
  /\ last' = NoLast
  /\ pc' = IF AllPages(pdf_texts) = <<>> THEN "persist_results" ELSE "page"
  /\ UNCHANGED <<req, index, DB_PATHS, pdf_texts, RESULT_CACHE, FAILURE_CACHE,
                 disk, matchVars, execVars, textVars, apiVars, retryVars, tokenVars>>

\* One page of the matching loop, lines 109-140.
MatchPage ==
  /\ pc = "page"
  /\ LET all == AllPages(pdf_texts)
         here == all[processed_pages + 1]
         tokens == extract_tokens(here.text)
         rows == PageRows(here.pdf_name, here.page, tokens, index)
         totals == state.totals
     IN /\ results' = results \o rows.results
        /\ failures' = failures \o rows.failures
        /\ processed_pages' = processed_pages + 1
        /\ SetState([totals |->
                       [tokens |-> totals.tokens + Len(tokens),
                        hit_hinban |-> totals.hit_hinban + CountType(rows.results, "hinban"),
                        hit_spec |-> totals.hit_spec + CountType(rows.results, "spec"),
                        fail |-> totals.fail + Len(rows.failures)],
                     progress |-> ProgressOf(processed_pages + 1, state.pages)])
        /\ pc' = IF processed_pages + 1 = Len(all) THEN "persist_results" ELSE "page"
  /\ UNCHANGED <<req, index, DB_PATHS, pdf_texts, RESULT_CACHE, FAILURE_CACHE,
                 disk, last, matchVars, execVars, textVars, apiVars, retryVars, tokenVars>>

NameRank(name) == CHOOSE i \in DOMAIN NameOrder : NameOrder[i] = name
TypeRank(type) == IF type = "hinban" THEN 1 ELSE 2

\* by=["pdf_name", "page", "matched_type"] and by=["pdf_name", "page"]
ResultsKey(row) == <<NameRank(row.pdf_name), row.page, TypeRank(row.matched_type)>>
FailuresKey(row) == <<NameRank(row.pdf_name), row.page>>

RECURSIVE KeyLess(_, _)
KeyLess(a, b) ==
  IF a = <<>> THEN FALSE
  ELSE IF Head(a) = Head(b) THEN KeyLess(Tail(a), Tail(b))
  ELSE Head(a) < Head(b)

\* The row positions in the order sort_values(by=...) on several columns
\* gives them: ascending keys, rows of equal keys in their former order.
RECURSIVE SortOrder(_)
SortOrder(keys) ==
  IF keys = <<>> THEN <<>>
  ELSE LET n == Len(keys)
           sorted == SortOrder(SubSeq(keys, 1, n - 1))
           before == {k \in DOMAIN sorted : ~KeyLess(keys[n], keys[sorted[k]])}
           m == Cardinality(before)
       IN SubSeq(sorted, 1, m) \o <<n>> \o SubSeq(sorted, m + 1, Len(sorted))

\* DataFrame.sort_values: the rows rearranged by the keys of their columns.
SortValues(rows, keys) ==
  LET order == SortOrder(keys) IN [i \in DOMAIN rows |-> rows[order[i]]]

\* results_df written as the worker appended it, without sort_values.
ResultsUnsorted(rows) == rows

SortedResults(rows) == SortValues(rows, [i \in DOMAIN rows |-> ResultsKey(rows[i])])
SortedFailures(rows) == SortValues(rows, [i \in DOMAIN rows |-> FailuresKey(rows[i])])

\* Lines 142-147: results are sorted, written and cached; a failing to_csv
\* is not caught and ends the thread.
PersistResults ==
  /\ pc = "persist_results"
  /\ LET results_df == SortedResults(results)
     IN \/ /\ pc' = "dead"
           /\ UNCHANGED <<disk, RESULT_CACHE>>
        \/ /\ disk' = WriteFile(disk, "results.csv", results_df)
           /\ RESULT_CACHE' = (TaskId :> results_df)
           /\ pc' = "persist_failures"
  /\ UNCHANGED <<req, TASKS, index, DB_PATHS, pdf_texts, results, failures,
                 processed_pages, FAILURE_CACHE, last, matchVars, execVars, textVars, apiVars, retryVars, tokenVars>>

\* Lines 149-154: failures are sorted, written and cached.
PersistFailures ==
  /\ pc = "persist_failures"
  /\ LET failures_df == SortedFailures(failures)
     IN \/ /\ pc' = "dead"
           /\ UNCHANGED <<disk, FAILURE_CACHE>>
        \/ /\ disk' = WriteFile(disk, "failure.csv", failures_df)
           /\ FAILURE_CACHE' = (TaskId :> failures_df)
           /\ pc' = "finish"
  /\ UNCHANGED <<req, TASKS, index, DB_PATHS, pdf_texts, results, failures,
                 processed_pages, RESULT_CACHE, last, matchVars, execVars, textVars, apiVars, retryVars, tokenVars>>

\* The last lines of the worker in another order: status is set to completed
\* first, the paths and the progress after it.
FinishStatusFirst ==
  /\ pc = "finish"
  /\ IF state.status # "completed"
     THEN /\ SetState([status |-> "completed"])
          /\ pc' = "finish"
     ELSE /\ SetState([results_path |-> "results.csv", failures_path |-> "failure.csv",
                       progress |-> 100])
          /\ pc' = "done"
  /\ UNCHANGED <<req, index, DB_PATHS, pdf_texts, results, failures,
                 processed_pages, RESULT_CACHE, FAILURE_CACHE, disk, last,
                 matchVars, execVars, textVars, apiVars, retryVars, tokenVars>>

\* Lines 156-159: the paths and the progress are published, and in a last
\* assignment of its own the status; a request may be served between the two.
Finish ==
  /\ \/ /\ pc = "finish"
        /\ SetState([results_path |-> "results.csv", failures_path |-> "failure.csv",
                     progress |-> 100])
        /\ pc' = "complete"
     \/ /\ pc = "complete"
        /\ SetState([status |-> "completed"])
        /\ pc' = "done"
  /\ UNCHANGED <<req, index, DB_PATHS, pdf_texts, results, failures,
                 processed_pages, RESULT_CACHE, FAILURE_CACHE, disk, last,
                 matchVars, execVars, textVars, apiVars, retryVars, tokenVars>>

----------------------------------------------------------------------------
(* normalize and extract_tokens exercised alone *)

MaxTextLen == 3
MaxWords == 3

\* Characters of the strings normalize is applied to: letters of both cases,
\* a digit, blanks, a full-width letter, an en dash and U+0390.
NormChars == {"a", "B", "1", " ", "\n", "U+3000", "U+2013", "U+FF41", "U+0390"}

\* The full-width string of test_normalize_converts_fullwidth_and_case, and
\* strings with the other dash variants.
NormSamples ==
  { <<"U+FF41", "U+FF42", "U+FF0D", "U+FF11", "U+FF12", "U+FF13", "U+FF43">>,
    <<"a", "U+2014", "1">>, <<"1", " ", "U+2212", "U+3000", " ", "B">>,
    <<"\n", "U+FF0D", "U+2013", " ">> }

NormInputs == StringsUpTo(NormChars, MaxTextLen) \cup NormSamples \cup {None, NaN}

\* Words of a page: identifiers in several spellings, blacklist words, a
\* number, words that are too short or begin with a separator.
PageWords ==
  { wSCALE, <<"M","O","D","E","L">>, w2024, wAB1, <<"a","b","U+2013","1">>,
    wQ78, <<"-","A","1","2">>, <<"K","G","5">>, <<"U+65B0",":">> }

RECURSIVE Join(_, _)
Join(words, sep) ==
  IF words = <<>> THEN <<>>
  ELSE IF Len(words) = 1 THEN words[1]
  ELSE words[1] \o sep \o Join(Tail(words), sep)

\* Page texts: words in any order, with repeats, on one line, on several
\* lines, or joined by "/".
PageInputs ==
  {Join(words, sep) : words \in SeqsUpTo(PageWords, MaxWords), sep \in {SP, NL, <<"/">>}}

TextParked ==
  /\ t_pc = "off"
  /\ t_text = <<>>
  /\ t_first = <<>>
  /\ t_out = <<>>

\* normalize(value)
NormalizeValue ==
  /\ t_pc = "value"
  /\ t_out' = normalize(t_text)
  /\ t_pc' = "normalized"
  /\ UNCHANGED <<t_text, t_first, taskVars, matchVars, execVars, apiVars, retryVars, tokenVars>>

\* normalize(normalize(value)): the result is normalized again.
NormalizeAgain ==
  /\ t_pc = "normalized"
  /\ t_first' = t_out
  /\ t_out' = normalize(t_out)
  /\ t_pc' = "renormalized"
  /\ UNCHANGED <<t_text, taskVars, matchVars, execVars, apiVars, retryVars, tokenVars>>

\* extract_tokens(text)
ExtractTokens ==
  /\ t_pc = "page"
  /\ t_out' = extract_tokens(t_text)
  /\ t_pc' = "extracted"
  /\ UNCHANGED <<t_text, t_first, taskVars, matchVars, execVars, apiVars, retryVars, tokenVars>>

----------------------------------------------------------------------------
(* HTTP endpoints (main.py) *)

\* Task ids a client may name: the task of the upload and an id never issued.
TaskIds == {TaskId, "t0"}

\* Tokens posted to /retry and the type parameter of /download.
ApiTokens == {<<"a","b","-","1">>, <<"M">>, <<"Z","Z">>}
DownloadTypes == {"results", "failures", "pdf"}

\* An HTTP answer: status code and body, with the request it answers and the
\* task status the handler read ("unknown" when TASKS.get returned None).
Http(endpoint, task_id, arg, seen, code, body) ==
  [endpoint |-> endpoint, task_id |-> task_id, arg |-> arg, seen |-> seen,
   code |-> code, body |-> body]

NoResponse == Http("none", Unset, Unset, Unset, 0, <<>>)

ApiParked == resp = NoResponse

\* state.status as a handler reads it.
StatusSeen(task_id) ==
  IF task_id \in DOMAIN TASKS THEN TASKS[task_id].status ELSE "unknown"

\* dict.get(task_id, [])
Get(cache, task_id) == IF task_id \in DOMAIN cache THEN cache[task_id] ELSE <<>>

\* main.status
StatusResponse(task_id) ==
  IF task_id \notin DOMAIN TASKS
  THEN Http("status", task_id, Unset, "unknown", 404, <<>>)
  ELSE LET st == TASKS[task_id]
       IN IF st.status = "error"
          THEN Http("status", task_id, Unset, st.status, 500, st.error)
          ELSE Http("status", task_id, Unset, st.status, 200,
                    [progress |-> st.progress, pages |-> st.pages,
                     totals |-> st.totals, backend_used |-> st.backend_used])

\* A rows endpoint that answers from the cache whatever the task's status.
RowsResponseAnyStatus(endpoint, cache, task_id) ==
  IF task_id \notin DOMAIN TASKS
  THEN Http(endpoint, task_id, Unset, "unknown", 404, <<>>)
  ELSE Http(endpoint, task_id, Unset, StatusSeen(task_id), 200, Get(cache, task_id))

\* main.get_results and main.get_failures
RowsResponse(endpoint, cache, task_id) ==
  IF task_id \notin DOMAIN TASKS
  THEN Http(endpoint, task_id, Unset, "unknown", 404, <<>>)
  ELSE IF TASKS[task_id].status # "completed"
  THEN Http(endpoint, task_id, Unset, StatusSeen(task_id), 400, <<>>)
  ELSE Http(endpoint, task_id, Unset, StatusSeen(task_id), 200, Get(cache, task_id))

\* The candidates of main.retry: the truthy matched_hinban values.
Candidates(matches) ==
  LET keep == {k \in DOMAIN matches :
                 matches[k].matched_hinban \notin {<<>>, None}}
      RECURSIVE Pick(_)
      Pick(k) == IF k > Len(matches) THEN <<>>
                 ELSE IF k \in keep
                      THEN <<matches[k].matched_hinban>> \o Pick(k + 1)
                      ELSE Pick(k + 1)
  IN Pick(1)

\* main.retry; db_exists is db_path.exists(), table what read_csv reads there.
RetryResponse(task_id, token, db_exists, table) ==
  IF task_id \notin DOMAIN TASKS
  THEN Http("retry", task_id, token, "unknown", 404, <<>>)
  ELSE IF task_id \notin DOMAIN DB_PATHS \/ ~db_exists
  THEN Http("retry", task_id, token, StatusSeen(task_id), 400, <<>>)
  ELSE Http("retry", task_id, token, StatusSeen(task_id), 200,
            Candidates(match_token(token, build_database_index(table))))

\* A download that serves a file as soon as its path is set, without the
\* test of the task's status.
DownloadResponseUnguarded(task_id, type) ==
  IF task_id \notin DOMAIN TASKS
  THEN Http("download", task_id, type, "unknown", 404, <<>>)
  ELSE LET st == TASKS[task_id]
       IN IF type = "results" /\ st.results_path # Unset
          THEN Http("download", task_id, type, st.status, 200, disk[st.results_path])
          ELSE IF type = "failures" /\ st.failures_path # Unset
          THEN Http("download", task_id, type, st.status, 200, disk[st.failures_path])
          ELSE Http("download", task_id, type, st.status, 404, <<>>)

\* main.download
DownloadResponse(task_id, type) ==
  IF task_id \notin DOMAIN TASKS
  THEN Http("download", task_id, type, "unknown", 404, <<>>)
  ELSE LET st == TASKS[task_id]
       IN IF st.status # "completed"
          THEN Http("download", task_id, type, st.status, 400, <<>>)
          ELSE IF type = "results" /\ st.results_path # Unset
          THEN Http("download", task_id, type, st.status, 200, disk[st.results_path])
          ELSE IF type = "failures" /\ st.failures_path # Unset
          THEN Http("download", task_id, type, st.status, 200, disk[st.failures_path])
          ELSE Http("download", task_id, type, st.status, 404, <<>>)

\* GET /api/status/{task_id}
status ==
  /\ \E task_id \in TaskIds : resp' = StatusResponse(task_id)
  /\ UNCHANGED <<taskVars, matchVars, execVars, textVars, retryVars, tokenVars>>

\* GET /api/results/{task_id}
get_results ==
  /\ \E task_id \in TaskIds : resp' = RowsResponse("results", RESULT_CACHE, task_id)
  /\ UNCHANGED <<taskVars, matchVars, execVars, textVars, retryVars, tokenVars>>

\* GET /api/failures/{task_id}
get_failures ==
  /\ \E task_id \in TaskIds : resp' = RowsResponse("failures", FAILURE_CACHE, task_id)
  /\ UNCHANGED <<taskVars, matchVars, execVars, textVars, retryVars, tokenVars>>

\* POST /api/retry; the stored table may have been removed from the disk.
retry ==
  /\ \E task_id \in TaskIds, token \in ApiTokens, db_exists \in BOOLEAN :
       resp' = RetryResponse(task_id, token, db_exists, req.db)
  /\ UNCHANGED <<taskVars, matchVars, execVars, textVars, retryVars, tokenVars>>

\* GET /api/download/{task_id}?type=
download ==
  /\ \E task_id \in TaskIds, type \in DownloadTypes :
       resp' = DownloadResponse(task_id, type)
  /\ UNCHANGED <<taskVars, matchVars, execVars, textVars, retryVars, tokenVars>>

\* POST /api/upload with one PDF.
UploadOne == UploadPdfs(1)

----------------------------------------------------------------------------
(* One page call of the primary engine and retry_with_backoff (utils.py) *)

MaxAttempts == 3

\* YOMITOKU_RETRY_BASE_DELAY in quarter seconds, and
\* YOMITOKU_RETRY_MULTIPLIER as a fraction: any float the environment sets.
BaseDelays == {-4, 0, 4, 8}
Multipliers == {<<1, 2>>, <<1, 1>>, <<2, 1>>}

\* What one engine call of a page does: it returns the page's text, raises
\* YomiTokuError, or raises an exception of another class.
CallOutcomes == {"ok", "YomiTokuError", "OtherError"}

\* exceptions=(YomiTokuError,)
RetriedExceptions == {"YomiTokuError"}

RetryParked ==
  /\ r_pc = "off"
  /\ r_mode = Unset
  /\ r_attempts = 0
  /\ r_multiplier = <<1, 1>>
  /\ r_delay = 0
  /\ r_hist = <<>>
  /\ r_sleeps = <<>>
  /\ r_exc = Unset

\* The attempt the loop is in: one more than the calls made.
Attempt == Len(r_hist) + 1

\* `if attempt >= attempts: raise`, taken one attempt too late.
ExhaustedLate(attempt, attempts) == attempt > attempts

\* `if attempt >= attempts: raise`
Exhausted(attempt, attempts) == attempt >= attempts

\* delay *= multiplier
NextDelay(delay, multiplier) == (delay * multiplier[1]) \div multiplier[2]

\* worker(item) is entered.  In REST mode it calls retry_with_backoff, whose
\* loop over range(1, attempts + 1) is empty when attempts < 1; in CLI mode
\* the engine is called directly.
EnterWorker ==
  /\ r_pc = "enter"
  /\ IF r_mode = "rest" /\ r_attempts < 1
     THEN r_pc' = "raised" /\ r_exc' = "RuntimeError"
     ELSE r_pc' = "call" /\ r_exc' = r_exc
  /\ UNCHANGED <<r_mode, r_attempts, r_multiplier, r_delay, r_hist, r_sleeps,
                 taskVars, matchVars, execVars, textVars, apiVars, tokenVars>>

\* The engine call returns: its result is returned at once.
CallReturns ==
  /\ r_pc = "call"
  /\ r_hist' = Append(r_hist, "ok")
  /\ r_pc' = "returned"
  /\ UNCHANGED <<r_mode, r_attempts, r_multiplier, r_delay, r_sleeps, r_exc,
                 taskVars, matchVars, execVars, textVars, apiVars, tokenVars>>

\* The engine call raises.  Under retry_with_backoff an exception of
\* exception_tuple is re-raised on the last attempt and slept on before;
\* any other exception, and every exception in CLI mode, leaves the worker.
CallRaises ==
  /\ r_pc = "call"
  /\ \E exc \in CallOutcomes \ {"ok"} :
       /\ r_hist' = Append(r_hist, exc)
       /\ IF r_mode = "rest" /\ exc \in RetriedExceptions
             /\ ~Exhausted(Attempt, r_attempts)
          THEN r_pc' = "sleep" /\ r_exc' = r_exc
          ELSE r_pc' = "raised" /\ r_exc' = exc
  /\ UNCHANGED <<r_mode, r_attempts, r_multiplier, r_delay, r_sleeps,
                 taskVars, matchVars, execVars, textVars, apiVars, tokenVars>>

\* time.sleep(delay); delay *= multiplier.  time.sleep raises ValueError on a
\* negative delay.
Sleep ==
  /\ r_pc = "sleep"
  /\ IF r_delay < 0
     THEN /\ r_pc' = "raised"
          /\ r_exc' = "ValueError"
          /\ UNCHANGED <<r_delay, r_sleeps>>
     ELSE /\ r_sleeps' = Append(r_sleeps, r_delay)
          /\ r_delay' = NextDelay(r_delay, r_multiplier)
          /\ r_pc' = "call"
          /\ r_exc' = r_exc
  /\ UNCHANGED <<r_mode, r_attempts, r_multiplier, r_hist,
                 taskVars, matchVars, execVars, textVars, apiVars, tokenVars>>

----------------------------------------------------------------------------
(* The token loop of one page (main.py) *)

TokenParked ==
  /\ cur_tokens = <<>>
  /\ cur_k = 0

\* Lines 110-111: the tokens of the next page are extracted and counted,
\* all of them, before the first is matched.
PageBegin ==
  /\ pc = "page"
  /\ LET here == AllPages(pdf_texts)[processed_pages + 1]
         tokens == extract_tokens(here.text)
         totals == state.totals
     IN /\ cur_tokens' = tokens
        /\ cur_k' = 0
        /\ SetState([totals |-> [totals EXCEPT !.tokens = @ + Len(tokens)]])
  /\ pc' = "token"
  /\ UNCHANGED <<req, index, DB_PATHS, pdf_texts, results, failures, processed_pages,
                 RESULT_CACHE, FAILURE_CACHE, disk, last,
                 matchVars, execVars, textVars, apiVars, retryVars>>

\* Lines 112-138 for one token: its records are appended and its hits or
\* its failure counted.
TokenStep ==
  /\ pc = "token"
  /\ cur_k < Len(cur_tokens)
  /\ LET here == AllPages(pdf_texts)[processed_pages + 1]
         rows == TokenRows(here.pdf_name, here.page, cur_tokens[cur_k + 1], index)
         totals == state.totals
     IN /\ results' = results \o rows.results
        /\ failures' = failures \o rows.failures
        /\ SetState([totals |->
                       [tokens |-> totals.tokens,
                        hit_hinban |-> totals.hit_hinban + CountType(rows.results, "hinban"),
                        hit_spec |-> totals.hit_spec + CountType(rows.results, "spec"),
                        fail |-> totals.fail + Len(rows.failures)]])
  /\ cur_k' = cur_k + 1
  /\ UNCHANGED <<pc, req, index, DB_PATHS, pdf_texts, processed_pages,
                 RESULT_CACHE, FAILURE_CACHE, disk, last, cur_tokens,
                 matchVars, execVars, textVars, apiVars, retryVars>>

\* Lines 139-140: the page is counted and the progress set.
PageEnd ==
  /\ pc = "token"
  /\ cur_k = Len(cur_tokens)
  /\ processed_pages' = processed_pages + 1
  /\ SetState([progress |-> ProgressOf(processed_pages + 1, state.pages)])
  /\ cur_tokens' = <<>>
  /\ cur_k' = 0
  /\ pc' = IF processed_pages + 1 = Len(AllPages(pdf_texts))
           THEN "persist_results" ELSE "page"
  /\ UNCHANGED <<req, index, DB_PATHS, pdf_texts, results, failures,
                 RESULT_CACHE, FAILURE_CACHE, disk, last,
                 matchVars, execVars, textVars, apiVars, retryVars>>

----------------------------------------------------------------------------
(* Specifications *)

Init ==
  TaskParked /\ MatchParked /\ ExecParked /\ TextParked /\ ApiParked /\ RetryParked /\ TokenParked

Next ==
  \/ Upload
  \/ Start
  \/ LoadDb
  \/ ExtractPdf
  \/ BeginMatch
  \/ MatchPage
  \/ PersistResults
  \/ PersistFailures
  \/ Finish

\* The task: an upload and its background worker.
Spec == Init /\ [][Next]_vars

InitMatch ==
  /\ TaskParked /\ ExecParked /\ TextParked /\ ApiParked /\ RetryParked /\ TokenParked
  /\ m_pc = "idle"
  /\ m_df \in MatchTables
  /\ m_token = <<>>
  /\ m_out = NoMatchRun

NextMatch == MatchExtracted \/ Retry

\* match_token on every table, page token and posted token of the bounds.
SpecMatch == InitMatch /\ [][NextMatch]_vars

InitExec ==
  /\ TaskParked /\ MatchParked /\ TextParked /\ ApiParked /\ RetryParked /\ TokenParked
  /\ e_pc = "call"
  /\ e_items \in {Enumerate(images) : images \in SeqsUpTo(Images, MaxItems)}
  /\ e_max_workers \in 1..MaxWorkers
  /\ e_fut = <<>>
  /\ e_results = <<>>
  /\ e_ret = <<>>
  /\ e_order = <<>>

NextExec ==
  \/ ExecSubmit
  \/ ThreadStart
  \/ ThreadFinish
  \/ ThreadRaise
  \/ Collect
  \/ CollectRaise
  \/ ExecRaise
  \/ ExecReturn

\* One call of execute_concurrently with its pool threads.
SpecExec == InitExec /\ [][NextExec]_vars

InitText ==
  /\ TaskParked /\ MatchParked /\ ExecParked /\ ApiParked /\ RetryParked /\ TokenParked
  /\ \/ t_pc = "value" /\ t_text \in NormInputs
     \/ t_pc = "page" /\ t_text \in PageInputs
  /\ t_first = <<>>
  /\ t_out = <<>>

NextText == NormalizeValue \/ NormalizeAgain \/ ExtractTokens

NextApi ==
  \/ UploadOne
  \/ Start
  \/ LoadDb
  \/ ExtractPdf
  \/ BeginMatch
  \/ MatchPage
  \/ PersistResults
  \/ PersistFailures
  \/ Finish
  \/ status
  \/ get_results
  \/ get_failures
  \/ retry
  \/ download

\* A task of one PDF, its worker, and the endpoints called at any moment.
SpecApi == Init /\ [][NextApi]_vars

InitRetry ==
  /\ TaskParked /\ MatchParked /\ ExecParked /\ TextParked /\ ApiParked /\ TokenParked
  /\ r_pc = "enter"
  /\ r_mode \in {"rest", "cli"}
  /\ r_attempts \in 0..MaxAttempts
  /\ r_multiplier \in Multipliers
  /\ r_delay \in BaseDelays
  /\ r_hist = <<>>
  /\ r_sleeps = <<>>
  /\ r_exc = Unset

NextRetry == EnterWorker \/ CallReturns \/ CallRaises \/ Sleep

\* One page call of the primary engine under every retry configuration.
SpecRetry == InitRetry /\ [][NextRetry]_vars

\* normalize and extract_tokens on every string of the bounds.
SpecText == InitText /\ [][NextText]_vars

----------------------------------------------------------------------------
(* Properties of the OCR orchestrator and the text-source resolver (Spec) *)

Pages(n) == [i \in 1..n |-> i]

\* The call of extract_pdf_text that `last` records reached ocr_pages and the
\* pages were rasterised.
OcrRan == last.call.ocr_calls = 1 /\ last.env.raster

\* What the local engine returns for the pages of the last call.
LocalTexts == [i \in DOMAIN last.doc.shown |-> LocalText(last.doc.shown[i], last.env.loc[i])]

LocalFails == \E i \in DOMAIN last.doc.shown : last.env.loc[i] = "fail"

\* The first page on which the local engine fails.
FirstLocalFail ==
  CHOOSE i \in DOMAIN last.doc.shown :
    /\ last.env.loc[i] = "fail"
    /\ \A j \in 1..(i - 1) : last.env.loc[j] # "fail"

\* ocr_pages fell back: rapidocr ran on the pages in order and paddleocr not
\* at all; its output is returned as rapidocr's, or its failure raised.
FellBackToRapid ==
  LET ocr == last.call.ocr
  IN /\ ocr.paddle_calls = <<>>
     /\ IF LocalFails
        THEN /\ ocr.out = "raise"
             /\ ocr.rapid_calls = Pages(FirstLocalFail)
        ELSE /\ ocr.out = "ret"
             /\ ocr.backend_used = "rapidocr"
             /\ ocr.rapid_calls = Pages(Len(last.doc.shown))
             /\ ocr.texts = LocalTexts

\* The primary path of the last call raised YomiTokuError.
PrimaryRaisedEngineError ==
  /\ OcrRan
  /\ last.backend = "yomitoku"
  /\ last.call.ocr.prim_run
  /\ last.call.ocr.prim.exc = "YomiTokuError"

\* C1 as stated: when the primary path raises its engine error, ocr_pages does
\* not raise, runs rapidocr on every page, returns that output and reports
\* backend_used = rapidocr.
C1_FallbackNeverRaises ==
  PrimaryRaisedEngineError =>
    /\ last.call.ocr.out = "ret"
    /\ last.call.ocr.backend_used = "rapidocr"
    /\ last.call.ocr.rapid_calls = Pages(Len(last.doc.shown))
    /\ last.call.ocr.texts = LocalTexts

\* C1 as amended: when the primary path raises its engine error, no primary
\* page result is kept and rapidocr runs on the pages in order; if rapidocr
\* fails on a page its exception leaves ocr_pages, otherwise ocr_pages returns
\* rapidocr's output for every page with backend_used = rapidocr.
C1_FallbackOnEngineError ==
  PrimaryRaisedEngineError =>
    /\ last.call.ocr.prim.texts = <<>>
    /\ FellBackToRapid

\* C1 witness: a page failed under a configured primary engine, and the call
\* returned rapidocr's output for a document of two pages.
C1_Witness ==
  /\ PrimaryRaisedEngineError
  /\ last.env.cfg = "rest"
  /\ last.call.ocr.prim.pages = {1, 2}
  /\ last.call.out = "ret"
  /\ last.call.label = "rapidocr"
  /\ Len(last.call.texts) = 2

\* The primary engine returned a text for every page of the last call.
PrimarySucceeded ==
  /\ OcrRan
  /\ last.backend = "yomitoku"
  /\ last.call.ocr.prim_run
  /\ last.call.ocr.prim.exc = "none"

PrimaryKept ==
  LET ocr == last.call.ocr
  IN /\ ocr.out = "ret"
     /\ ocr.texts = ocr.prim.texts
     /\ ocr.backend_used = "yomitoku"
     /\ ocr.rapid_calls = <<>>
     /\ ocr.paddle_calls = <<>>

\* Sum of the lengths of texts with the blanks at the ends of each removed.
RECURSIVE StrippedTotal(_)
StrippedTotal(texts) ==
  IF texts = <<>> THEN 0
  ELSE Len(Strip(Head(texts))) + StrippedTotal(Tail(texts))

\* C2 as stated: after a primary run that succeeded on every page, a total
\* extracted text below 20 characters makes ocr_pages run rapidocr on every
\* page and report rapidocr; a total of 20 or more returns the primary output
\* as yomitoku and runs no fallback engine.
C2_ThresholdOnExtractedText ==
  PrimarySucceeded =>
    IF SumLen(last.call.ocr.prim.texts) < MIN_TEXT_LENGTH
    THEN /\ last.call.ocr.out = "ret"
         /\ last.call.ocr.backend_used = "rapidocr"
         /\ last.call.ocr.rapid_calls = Pages(Len(last.doc.shown))
    ELSE PrimaryKept

\* C2 as amended: the total is that of the page texts with the blanks at
\* their ends stripped; below 20 the primary output is discarded and rapidocr
\* runs on the pages in order (its output is returned as rapidocr's, or its
\* failure raised); at 20 or more the primary output is returned as
\* yomitoku's and no fallback engine runs.
C2_ThresholdOnStrippedText ==
  PrimarySucceeded =>
    IF StrippedTotal(last.call.ocr.prim.texts) < MIN_TEXT_LENGTH
    THEN FellBackToRapid
    ELSE PrimaryKept

\* C2 witness: the primary engine returned 20 characters, fewer without the
\* blanks at the ends, and rapidocr's output was returned.
C2_Witness ==
  /\ PrimarySucceeded
  /\ SumLen(last.call.ocr.prim.texts) >= MIN_TEXT_LENGTH
  /\ StrippedTotal(last.call.ocr.prim.texts) < MIN_TEXT_LENGTH
  /\ last.call.out = "ret"
  /\ last.call.label = "rapidocr"

\* C3: a local backend requested explicitly runs alone, page by page in
\* order; it is reported as backend_used; its failure is not recovered:
\* ocr_pages raises, extract_pdf_text raises and the task ends in error.
C3_LocalBackendRunsAlone ==
  (OcrRan /\ last.backend \in {"rapidocr", "paddleocr"}) =>
    LET ocr == last.call.ocr
        mine == IF last.backend = "rapidocr" THEN ocr.rapid_calls ELSE ocr.paddle_calls
        other == IF last.backend = "rapidocr" THEN ocr.paddle_calls ELSE ocr.rapid_calls
    IN /\ ~ocr.prim_run
       /\ ocr.prim.pages = {}
       /\ other = <<>>
       /\ IF LocalFails
          THEN /\ mine = Pages(FirstLocalFail)
               /\ ocr.out = "raise"
               /\ last.call.out = "RuntimeError"
               /\ state.status = "error"
               /\ state.error # Unset
               /\ pc = "done"
          ELSE /\ mine = Pages(Len(last.doc.shown))
               /\ ocr.out = "ret"
               /\ ocr.texts = LocalTexts
               /\ last.call.label = last.backend
               /\ state.backend_used = last.backend

\* C3 witness: paddleocr, requested explicitly, failed on the second page.
C3_Witness ==
  /\ OcrRan
  /\ last.backend = "paddleocr"
  /\ last.call.ocr.paddle_calls = <<1, 2>>
  /\ last.call.ocr.out = "raise"
  /\ state.status = "error"

\* C5: with a readable text layer, extract_pdf_text returns the layer as
\* text-layer without calling OCR exactly when the stripped concatenation of
\* the page texts has 20 characters or more; otherwise it calls ocr_pages
\* once with the requested backend and returns its texts and its label.
C5_TextLayerThreshold ==
  (last.call.out # "none" /\ last.env.layer_ok) =>
    IF Len(Strip(Flatten(last.doc.layer))) >= MIN_TEXT_LENGTH
    THEN /\ last.call.out = "ret"
         /\ last.call.texts = last.doc.layer
         /\ last.call.label = "text-layer"
         /\ last.call.ocr_calls = 0
         /\ last.call.ocr = NoOcr
    ELSE /\ last.call.ocr_calls = 1
         /\ last.call.ocr_backend = last.backend
         /\ last.call.label # "text-layer"
         /\ IF last.call.ocr.out = "ret"
            THEN /\ last.call.out = "ret"
                 /\ last.call.texts = last.call.ocr.texts
                 /\ last.call.label = last.call.ocr.backend_used
            ELSE last.call.out = "RuntimeError"

\* C5 witness: a text layer of 20 characters with blanks at the page break
\* was accepted.
C5_Witness ==
  /\ last.call.out = "ret"
  /\ last.call.label = "text-layer"
  /\ Len(Strip(Flatten(last.doc.layer))) = MIN_TEXT_LENGTH
  /\ StrippedTotal(last.doc.layer) < MIN_TEXT_LENGTH

----------------------------------------------------------------------------
(* Properties of execute_concurrently (SpecExec) *)

\* C4: whatever the order in which the pool threads finish, the list returned
\* has one element per item and its i-th element is the worker's result on
\* the i-th item.
C4_ResultsInItemOrder ==
  e_pc = "returned" =>
    /\ Len(e_ret) = Len(e_items)
    /\ \A i \in DOMAIN e_items : e_ret[i] = WorkerResult(e_items[i])

\* C4 witness: three pages were returned although a later page finished
\* before an earlier one.
C4_Witness ==
  /\ e_pc = "returned"
  /\ Len(e_items) = 3
  /\ \E a, b \in DOMAIN e_order : a < b /\ e_order[a] > e_order[b]

----------------------------------------------------------------------------
(* Properties of match_token (SpecMatch) *)

Matched == m_pc \in {"page", "retry"}

\* The row positions whose normalised identifier is that of the token.
RowsOfIdentifier ==
  {i \in DOMAIN m_df.rows :
     /\ normalize(m_token) # <<>>
     /\ normalize(fillna(m_df.rows[i]["hinban"])) = normalize(m_token)}

IsIdentifier == RowsOfIdentifier # {}

\* s holds t as a contiguous substring.
Substring(s, t) ==
  \E i \in 1..(Len(s) - Len(t) + 1) : SubSeq(s, i, i + Len(t) - 1) = t

\* The row positions whose normalised specification holds the normalised token.
RowsOfSpecification ==
  {i \in DOMAIN m_df.rows :
     Substring(normalize(fillna(m_df.rows[i]["spec"])), normalize(m_token))}

\* The elements of a set of row positions in ascending order.
RECURSIVE Ascending(_)
Ascending(S) ==
  IF S = {} THEN <<>>
  ELSE LET m == CHOOSE x \in S : \A y \in S : x <= y
       IN <<m>> \o Ascending(S \ {m})

\* The results are one record of the given type per row of rows, in order.
ResultsAre(type, rows) ==
  /\ Len(m_out.results) = Len(rows)
  /\ \A k \in DOMAIN rows :
       LET rec == m_out.results[k]
           row == m_df.rows[rows[k]]
       IN /\ rec.matched_type = type
          /\ rec.matched_hinban = row["hinban"]
          /\ ("zaiko" \in DOMAIN rec) = ("zaiko" \in m_df.columns)
          /\ "zaiko" \in m_df.columns => rec.zaiko = row["zaiko"]

\* C6: a token that normalises to an identifier yields hinban records only
\* and the specification column is not searched, also when a row's
\* specification holds the token.
C6_IdentifierPrecedence ==
  (Matched /\ IsIdentifier) =>
    /\ m_out.results # <<>>
    /\ \A k \in DOMAIN m_out.results : m_out.results[k].matched_type = "hinban"
    /\ ~m_out.spec_scan

\* C6 witness: the token is an identifier and occurs in a row's specification.
C6_Witness ==
  /\ Matched
  /\ IsIdentifier
  /\ RowsOfSpecification # {}
  /\ m_out.results # <<>>

NextTokens ==
  \/ UploadOne
  \/ Start
  \/ LoadDb
  \/ ExtractPdf
  \/ BeginMatch
  \/ PageBegin
  \/ TokenStep
  \/ PageEnd
  \/ PersistResults
  \/ PersistFailures
  \/ Finish

\* The task of one PDF with the matching loop taken token by token.
SpecTokens == Init /\ [][NextTokens]_vars

\* C7: a token that normalises to an identifier yields exactly one hinban
\* record per row of that identifier, in row order, with the row's identifier
\* and, when the table has the column, its stock value.
C7_OneRecordPerRow ==
  (Matched /\ IsIdentifier) => ResultsAre("hinban", Ascending(RowsOfIdentifier))

\* C7 witness: two rows share the identifier of a token written differently
\* from both, and two records were returned.
C7_Witness ==
  /\ Matched
  /\ Cardinality(RowsOfIdentifier) = 2
  /\ Len(m_out.results) = 2
  /\ m_out.results[1].matched_hinban # m_out.results[2].matched_hinban
  /\ \A k \in 1..2 : m_out.results[k].matched_hinban # m_token

\* C8 as stated: a token that is no identifier yields exactly one spec record
\* per row whose normalised specification holds the normalised token as a
\* contiguous substring, in row order, and none for any other row.
C8_SubstringMatch ==
  (Matched /\ ~IsIdentifier) => ResultsAre("spec", Ascending(RowsOfSpecification))

\* The same for the tokens taken from page texts alone.
PageTokenSubstringMatch ==
  (m_pc = "page" /\ ~IsIdentifier) => ResultsAre("spec", Ascending(RowsOfSpecification))

----------------------------------------------------------------------------
(* Properties of the background task (Spec) *)

\* The position of page p of document d in the matching loop.
RECURSIVE PagesBefore(_)
PagesBefore(d) == IF d = 1 THEN 0 ELSE PagesBefore(d - 1) + Len(pdf_texts[d - 1][2])

\* The pages the matching loop has done: document position and page number
\* counted from 1.
DonePages ==
  {dp \in UNION {{<<d, p>> : p \in DOMAIN pdf_texts[d][2]} : d \in DOMAIN pdf_texts} :
     PagesBefore(dp[1]) + dp[2] <= processed_pages}

TokensOf(dp) == Range(extract_tokens(pdf_texts[dp[1]][2][dp[2]]))

Count(rows, row) == Cardinality({k \in DOMAIN rows : rows[k] = row})

\* C9: every token of a processed page for which match_token returns nothing
\* is one failures row with the document's name and the page number counted
\* from 1 (one row per page that holds it), in the worker's list and in the
\* served table, and no results row.
C9_UnmatchedTokenIsOneFailure ==
  \A dp \in DonePages :
    \A token \in TokensOf(dp) :
      match_token(token, index) = <<>> =>
        LET name == pdf_texts[dp[1]][1]
            row == [pdf_name |-> name, page |-> dp[2], token |-> token]
            same == {x \in DonePages :
                       /\ pdf_texts[x[1]][1] = name
                       /\ x[2] = dp[2]
                       /\ token \in TokensOf(x)}
        IN /\ Count(failures, row) = Cardinality(same)
           /\ \A k \in DOMAIN results :
                ~(/\ results[k].pdf_name = name
                  /\ results[k].page = dp[2]
                  /\ results[k].token = token)
           /\ TaskId \in DOMAIN FAILURE_CACHE =>
                Count(FAILURE_CACHE[TaskId], row) = Cardinality(same)

\* C9 witness: a completed task serves a failures row of the second page of
\* a document, and a results row of that page.
C9_Witness ==
  /\ pc = "done"
  /\ state.status = "completed"
  /\ \E k \in DOMAIN FAILURE_CACHE[TaskId] : FAILURE_CACHE[TaskId][k].page = 2
  /\ \E k \in DOMAIN results : results[k].page = 2
  /\ state.totals.fail = Len(failures)

\* C10 as stated, for a worker that has ended: whether _process_task returned
\* or an exception ended its thread, the status is completed or error.
C10_EndedWorkerIsTerminal ==
  pc \in {"done", "dead"} => state.status \in {"completed", "error"}

----------------------------------------------------------------------------
(* Properties of normalize and extract_tokens (SpecText) *)

\* The maximal runs of pattern characters of s.
RunsOf(s) ==
  {SubSeq(s, x[1], x[2]) : x \in
     {y \in (DOMAIN s) \X (DOMAIN s) :
        /\ y[1] <= y[2]
        /\ \A k \in y[1]..y[2] : s[k] \in TokenBody
        /\ y[1] = 1 \/ s[y[1] - 1] \notin TokenBody
        /\ y[2] = Len(s) \/ s[y[2] + 1] \notin TokenBody}}

\* w has the shape of the identifier pattern.
PatternShaped(w) ==
  /\ Len(w) >= 4
  /\ w[1] \in Range(UPPER) \cup Range(DIGITS)
  /\ \A k \in DOMAIN w : w[k] \in Range(UPPER) \cup Range(DIGITS) \cup {"-", "_", "/"}

DigitIn(w) == \E k \in DOMAIN w : w[k] \in Range(DIGITS)

OccursIn(w, s) == \E i \in 1..(Len(s) - Len(w) + 1) : SubSeq(s, i, i + Len(w) - 1) = w

\* C18: every token extract_tokens returns occurs in the normalized text,
\* has the shape of the identifier pattern, holds a digit and is no
\* blacklist word; a word of the text that is a valid identifier on its own
\* is returned whatever stands elsewhere in the text.
C18_TokensAreFilteredMatches ==
  t_pc = "extracted" =>
    LET cleaned == normalize(t_text)
    IN /\ \A k \in DOMAIN t_out :
            /\ OccursIn(t_out[k], cleaned)
            /\ PatternShaped(t_out[k])
            /\ DigitIn(t_out[k])
            /\ t_out[k] \notin BLACKLIST
       /\ \A w \in RunsOf(cleaned) :
            (PatternShaped(w) /\ DigitIn(w)) => w \in Range(t_out)

\* C18 witness: a line with a blacklist word, a number and an identifier
\* gives the number and the identifier, not the word.
C18_Witness ==
  /\ t_pc = "extracted"
  /\ t_text = Join(<<wSCALE, w2024, wAB1>>, SP)
  /\ t_out = <<w2024, wAB1>>

\* C19: the list extract_tokens returns is strictly ascending in string
\* order, so no token stands in it twice.
C19_TokensStrictlyAscending ==
  t_pc = "extracted" =>
    \A i \in DOMAIN t_out : \A j \in DOMAIN t_out :
      i < j => StrLess(t_out[i], t_out[j])

\* C19 witness: a token that occurs twice, around a smaller one, is returned
\* once and after it.
C19_Witness ==
  /\ t_pc = "extracted"
  /\ t_text = Join(<<wQ78, wAB1, wQ78>>, SP)
  /\ t_out = <<wAB1, wQ78>>

\* C20 as stated: normalizing a normalized string changes nothing.
C20_NormalizeIdempotent ==
  t_pc = "renormalized" => t_out = t_first

----------------------------------------------------------------------------
(* Properties of the endpoints and of the task's end (SpecApi, Spec) *)

Terminal == TaskId \in DOMAIN TASKS /\ state.status \in {"completed", "error"}

C12_RowsOnlyWhenCompleted ==
  resp.endpoint \in {"results", "failures"} =>
    /\ resp.seen = "unknown" => resp.code = 404
    /\ resp.seen \in {"pending", "processing"} => resp.code = 400
    /\ resp.seen = "error" => resp.code # 200 /\ resp.body = <<>>
    /\ resp.body # <<>> => resp.code = 200 /\ resp.seen = "completed"
    /\ resp.seen = "completed" => resp.code = 200

\* C12 witness: rows were served for a completed task.
C12_Witness ==
  /\ resp.endpoint = "results"
  /\ resp.code = 200
  /\ resp.seen = "completed"
  /\ resp.body # <<>>
  /\ resp.body = RESULT_CACHE[TaskId]

\* C13 as stated: when ocr_pages runs the primary backend and an error
\* leaves it, rapidocr was attempted and failed.
C13_PrimaryErrorsHandledInside ==
  (/\ OcrRan
   /\ last.backend = "yomitoku"
   /\ last.call.ocr.prim_run
   /\ last.call.ocr.out = "raise") =>
    /\ last.call.ocr.rapid_calls # <<>>
    /\ LocalFails

\* C14 as stated: /retry answers 404 for an unknown task id and for a task
\* whose stored table is missing, and otherwise the matched identifiers of
\* the posted token.
C14_RetryMissingIs404 ==
  resp.endpoint = "retry" =>
    \/ resp.code = 404
    \/ /\ resp.code = 200
       /\ resp.task_id \in DOMAIN DB_PATHS
       /\ resp.body = Candidates(match_token(resp.arg, build_database_index(req.db)))

\* C15 as stated: /download answers 404 when the task has not completed or
\* the type is not recognised, and the persisted table for a completed task
\* and a recognised type.
C15_DownloadNotReadyIs404 ==
  resp.endpoint = "download" =>
    IF resp.seen = "completed" /\ resp.arg \in {"results", "failures"}
    THEN /\ resp.code = 200
         /\ resp.body = disk[IF resp.arg = "results" THEN "results.csv" ELSE "failure.csv"]
    ELSE resp.code = 404

\* Rows in the order of their keys: no row stands before one of a smaller key.
InKeyOrder(keys) ==
  \A i \in DOMAIN keys : \A j \in DOMAIN keys : i < j => ~KeyLess(keys[j], keys[i])

NamePageType(rows) ==
  [i \in DOMAIN rows |->
     <<NameRank(rows[i].pdf_name), rows[i].page, TypeRank(rows[i].matched_type)>>]

NamePage(rows) == [i \in DOMAIN rows |-> <<NameRank(rows[i].pdf_name), rows[i].page>>]

\* C16: for a completed task the results rows, served and persisted, are in
\* the order of document name, page and match type, and the failures rows in
\* the order of document name and page.
C16_TablesSorted ==
  (pc = "done" /\ state.status = "completed") =>
    /\ InKeyOrder(NamePageType(RESULT_CACHE[TaskId]))
    /\ InKeyOrder(NamePageType(disk["results.csv"]))
    /\ InKeyOrder(NamePage(FAILURE_CACHE[TaskId]))
    /\ InKeyOrder(NamePage(disk["failure.csv"]))

\* C16 witness: a completed task whose documents were processed in another
\* order than that of their names, so that both tables were reordered.
C16_Witness ==
  /\ pc = "done"
  /\ state.status = "completed"
  /\ results # RESULT_CACHE[TaskId]
  /\ failures # FAILURE_CACHE[TaskId]
  /\ Len(results) > 1

LacksColumn == "hinban" \notin req.db.columns \/ "spec" \notin req.db.columns

\* C17: a reference table without the hinban or the spec column ends the
\* task in error when it is loaded, with the load's failure as the message;
\* the table is not stored, no PDF is extracted, no token matched and no
\* table produced.
C17_SchemaErrorIsFatal ==
  (LacksColumn /\ pc \notin {"none", "start", "load"}) =>
    /\ pc = "done"
    /\ state.status = "error"
    /\ state.error \in {"csv: hinban and spec columns required", "csv: encoding"}
    /\ state.pages = 0 /\ state.backend_used = Unset
    /\ index = NoIndex /\ DB_PATHS = <<>>
    /\ last = NoLast /\ pdf_texts = <<>>
    /\ processed_pages = 0 /\ results = <<>> /\ failures = <<>>
    /\ RESULT_CACHE = <<>> /\ FAILURE_CACHE = <<>>
    /\ disk = <<>>

\* C17 witness: the load of a table without the spec column has failed on
\* the column test.
C17_Witness ==
  /\ pc = "done"
  /\ "spec" \notin req.db.columns
  /\ state.status = "error"
  /\ state.error = "csv: hinban and spec columns required"

----------------------------------------------------------------------------
(* Properties of the page call and of retry_with_backoff (SpecRetry) *)

Ended == r_pc \in {"returned", "raised"}

\* C22 as stated: in REST mode and in CLI mode alike, a page counts as failed
\* with the engine's error only after the configured number of attempts, and
\* an exception of another class ends the call at once.
C22_EnginePageCallIsRetried ==
  (r_attempts >= 1 /\ r_pc = "raised") =>
    /\ r_exc = "YomiTokuError" => Len(r_hist) = r_attempts
    /\ r_exc = "OtherError" => r_hist[Len(r_hist)] = "OtherError"

\* C23: retry_with_backoff with attempts >= 1 calls the operation at least
\* once and at most attempts times; every call before the last one failed
\* with the retried error, so the first success ends the run and is
\* returned; one sleep lies between two consecutive calls and none after the
\* last; the retried error is raised only after exactly attempts failed calls.
C23_RetryCeiling ==
  (r_mode = "rest" /\ r_attempts >= 1 /\ r_pc # "enter") =>
    /\ Len(r_hist) <= r_attempts
    /\ \A k \in 1..(Len(r_hist) - 1) : r_hist[k] = "YomiTokuError"
    /\ r_pc = "call" => Len(r_sleeps) = Len(r_hist)
    /\ r_pc = "sleep" => Len(r_sleeps) = Len(r_hist) - 1
    /\ Ended => /\ Len(r_hist) >= 1
                /\ Len(r_sleeps) = Len(r_hist) - 1
    /\ r_pc = "returned" => r_hist[Len(r_hist)] = "ok"
    /\ (r_pc = "raised" /\ r_exc = "YomiTokuError") =>
         /\ Len(r_hist) = r_attempts
         /\ \A k \in DOMAIN r_hist : r_hist[k] = "YomiTokuError"

\* C23 witness: three attempts failed with the engine's error, two sleeps
\* lay between them, and the error was raised.
C23_Witness ==
  /\ r_mode = "rest"
  /\ r_attempts = 3
  /\ r_pc = "raised"
  /\ r_exc = "YomiTokuError"
  /\ Len(r_hist) = 3
  /\ Len(r_sleeps) = 2

\* C24 as stated: for every base delay and multiplier, each delay slept in
\* one run is greater than the one before it.
C24_DelaysStrictlyIncrease ==
  r_mode = "rest" =>
    \A k \in 1..(Len(r_sleeps) - 1) : r_sleeps[k + 1] > r_sleeps[k]

\* What the folding of one character is to be: full-width letters and
\* digits to their ASCII capital or digit, the dash variants to "-", every
\* whitespace character to a space, a small letter to its capital.
FoldedChar(c) ==
  CASE c \in {"a", "U+FF41"} -> "A"
    [] c = "U+FF42" -> "B"
    [] c = "U+FF43" -> "C"
    [] c = "U+FF11" -> "1"
    [] c = "U+FF12" -> "2"
    [] c = "U+FF13" -> "3"
    [] c \in {"U+FF0D", "U+2013", "U+2014", "U+2212"} -> "-"
    [] c \in {" ", "\n", "U+3000"} -> " "
    [] OTHER -> c

\* The positions of a folded string that stay: every character that is no
\* space, and the first space of a run that has characters on both sides.
KeptPositions(f) ==
  {i \in DOMAIN f :
     \/ f[i] # " "
     \/ /\ i > 1 /\ f[i - 1] # " "
        /\ \E j \in (i + 1)..Len(f) : f[j] # " "}

\* C21: normalize folds full-width letters and digits to ASCII capitals and
\* digits and every dash variant to "-", leaves one space for each run of
\* whitespace between characters and none at the ends; the full-width
\* 'ab-123c' becomes 'AB-123C'.
C21_NormalizeFolds ==
  (t_pc = "normalized" /\ t_text \notin {None, NaN}
     /\ "U+0390" \notin Range(t_text)) =>
    LET f == [i \in DOMAIN t_text |-> FoldedChar(t_text[i])]
        kept == KeptPositions(f)
    IN /\ Len(t_out) = Cardinality(kept)
       /\ \A i \in kept : t_out[Cardinality({j \in kept : j <= i})] = f[i]

\* C21 witness: the full-width string of the test is normalized to AB-123C.
C21_Witness ==
  /\ t_pc = "normalized"
  /\ t_text = <<"U+FF41", "U+FF42", "U+FF0D", "U+FF11", "U+FF12", "U+FF13", "U+FF43">>
  /\ t_out = <<"A", "B", "-", "1", "2", "3", "C">>

\* The places <<key, position in the bucket>> of a map that hold row i.
PlacesOf(map, i) ==
  {kp \in UNION {{<<k, p>> : p \in DOMAIN map[k]} : k \in DOMAIN map} :
     map[kp[1]][kp[2]] = i}

\* The buckets of a map are those of the rows of a table: no empty key,
\* every position in a bucket is a row whose normalized identifier is the
\* key, the positions of a bucket ascend, a row stands in one bucket at most
\* and in none when its identifier is absent, empty or blank.
BucketsOf(map, rows) ==
  /\ <<>> \notin DOMAIN map
  /\ \A k \in DOMAIN map :
       /\ \A p \in DOMAIN map[k] :
            /\ map[k][p] \in DOMAIN rows
            /\ normalize(fillna(rows[map[k][p]]["hinban"])) = k
       /\ \A p, q \in DOMAIN map[k] : p < q => map[k][p] < map[k][q]
  /\ \A i \in DOMAIN rows :
       /\ Cardinality(PlacesOf(map, i)) <= 1
       /\ rows[i]["hinban"] \in {NaN, <<>>, <<" ">>} => PlacesOf(map, i) = {}

\* C25: in the identifier map every row position stands in at most one
\* bucket, the bucket of its own normalized identifier; the positions of a
\* bucket ascend; a row whose identifier is absent or empty stands in no
\* bucket and the empty string is never a key.
C25_HinbanMapBuckets ==
  Matched => BucketsOf(build_database_index(m_df).hinban_map, m_df.rows)

\* C25 witness: a table indexed for a match has a row without identifier
\* next to a row that stands in a bucket.
C25_Witness ==
  /\ Matched
  /\ LET map == build_database_index(m_df).hinban_map
     IN \E i, j \in DOMAIN m_df.rows :
          /\ m_df.rows[i]["hinban"] = NaN
          /\ PlacesOf(map, i) = {}
          /\ PlacesOf(map, j) # {}

\* The table a successful answer is to carry: the whole sorted results
\* table, or the whole sorted failures table.
FinalTable(endpoint, arg) ==
  IF endpoint = "results" \/ (endpoint = "download" /\ arg = "results")
  THEN SortedResults(results)
  ELSE SortedFailures(failures)

\* C26: whenever a request can observe the status completed, both caches and
\* the files of both paths hold the final sorted tables; and every successful
\* answer of /results, /failures and /download was given to a request that
\* observed completed and carries the whole final table.
C26_CompletedMeansPublished ==
  /\ (TaskId \in DOMAIN TASKS /\ state.status = "completed") =>
       /\ TaskId \in DOMAIN RESULT_CACHE
       /\ TaskId \in DOMAIN FAILURE_CACHE
       /\ RESULT_CACHE[TaskId] = SortedResults(results)
       /\ FAILURE_CACHE[TaskId] = SortedFailures(failures)
       /\ state.results_path # Unset
       /\ state.failures_path # Unset
       /\ disk[state.results_path] = SortedResults(results)
       /\ disk[state.failures_path] = SortedFailures(failures)
  /\ (resp.endpoint \in {"results", "failures", "download"} /\ resp.code = 200) =>
       /\ resp.seen = "completed"
       /\ resp.body = FinalTable(resp.endpoint, resp.arg)

\* C26 witness: a download of the failures file succeeded for a task that
\* produced rows of both tables.
C26_Witness ==
  /\ resp.endpoint = "download"
  /\ resp.arg = "failures"
  /\ resp.code = 200
  /\ resp.body # <<>>
  /\ results # <<>>

\* The (document, page, token) triples the matching loop has processed: the
\* tokens of the pages counted in processed_pages and the tokens of the page
\* in progress that have been matched.
ProcessedTriples ==
  LET all == AllPages(pdf_texts)
      triple(p, token) == <<all[p].pdf_name, all[p].page, token>>
  IN UNION {{triple(p, token) : token \in Range(extract_tokens(all[p].text))} :
              p \in 1..processed_pages}
       \cup {triple(processed_pages + 1, cur_tokens[k]) : k \in 1..cur_k}

\* The number of rows of a table that a triple contributed.
RowsFor(rows, t) ==
  Cardinality({k \in DOMAIN rows :
                 <<rows[k].pdf_name, rows[k].page, rows[k].token>> = t})

\* The matching phase and the states after it, up to completion.
Matching ==
  /\ pc \in {"page", "token", "persist_results", "persist_failures",
             "finish", "complete", "done"}
  /\ state.status \in {"processing", "completed"}

\* Every processed triple has rows in one table only, one or more in results
\* or one in failures; every row is that of a processed triple; the hit
\* counters add up to the results rows and fail to the failures rows.
RowsAccounted ==
  /\ \A t \in ProcessedTriples :
       \/ RowsFor(results, t) >= 1 /\ RowsFor(failures, t) = 0
       \/ RowsFor(results, t) = 0 /\ RowsFor(failures, t) = 1
  /\ \A k \in DOMAIN results :
       <<results[k].pdf_name, results[k].page, results[k].token>> \in ProcessedTriples
  /\ \A k \in DOMAIN failures :
       <<failures[k].pdf_name, failures[k].page, failures[k].token>> \in ProcessedTriples
  /\ state.totals.hit_hinban + state.totals.hit_spec = Len(results)
  /\ state.totals.fail = Len(failures)

\* C27 as stated: at every point of the matching phase and at completion the
\* rows are accounted for as above and totals.tokens is the number of
\* processed triples.
C27_TotalsAtEveryPoint ==
  Matching =>
    /\ RowsAccounted
    /\ state.totals.tokens = Cardinality(ProcessedTriples)

\* C27 amended: after every token of the matching phase and at completion
\* the rows are accounted for as above; totals.tokens is the number of
\* processed triples plus the tokens of the page in progress that are still
\* to be matched, hence the number of processed triples between two pages
\* and at completion.
C27_TotalsAtPageBoundaries ==
  Matching =>
    /\ RowsAccounted
    /\ state.totals.tokens =
         Cardinality(ProcessedTriples) + (Len(cur_tokens) - cur_k)
    /\ pc # "token" => state.totals.tokens = Cardinality(ProcessedTriples)

\* C27 witness: in the middle of a page one token has its results rows,
\* another its failures row, and a third is counted but not yet matched.
C27_Witness ==
  /\ pc = "token"
  /\ cur_k < Len(cur_tokens)
  /\ results # <<>>
  /\ failures # <<>>
  /\ state.totals.tokens > Cardinality(ProcessedTriples)

\* C28: progress is an integer from 0 to 100, no step of the worker lowers
\* it, and it is 100 whenever the status is completed, a task without pages
\* included.
C28_ProgressMonotone ==
  /\ [](TaskId \in DOMAIN TASKS =>
          /\ state.progress \in 0..100
          /\ state.status = "completed" => state.progress = 100)
  /\ [][(TaskId \in DOMAIN TASKS) =>
          (state.progress <= TASKS'[TaskId].progress)]_vars

\* C28 witness: a task whose documents have no page is completed at 100.
C28_Witness ==
  /\ pc = "done"
  /\ state.status = "completed"
  /\ state.pages = 0
  /\ state.progress = 100

====
